---- MODULE Spec2Model ----
(***************************************************************************)
(* Relay orchestration layer of the proxy server (unified-server.js and    *)
(* the server half of black-browser.js) together with the browser-side     *)
(* peer (the first half of black-browser.js).                              *)
(*                                                                         *)
(* Execution model.  Node.js runs one macrotask (an HTTP request, a        *)
(* WebSocket event, a timer, the completion of a browser activation) and   *)
(* then every continuation that became runnable, before it takes the next  *)
(* macrotask.  A request whose awaited promise is settled holds the value  *)
(* in req[r].got; while some request holds a value only continuations      *)
(* (the Resume... actions) can step, so no macrotask interleaves with a    *)
(* synchronous run.  Every action runs one handler from its entry (or an   *)
(* await point) up to the next await.                                      *)
(***************************************************************************)
EXTENDS Integers, Sequences, FiniteSets, TLC

\* ----------------------------------------------------------------- bounds
MaxRequests == 3      \* HTTP requests that arrive in one behaviour
MaxInFlight == 2      \* requests processed at the same time
MaxChunks == 2        \* chunk fragments the upstream sends in real mode
MaxAuthIndex == 2     \* largest credential index that exists
MaxLostTimers == 1    \* grace timeouts left running after their handle was overwritten
MaxPeers == 2         \* WebSocket connections open at the same time
MaxAdminOps == 1      \* calls of the admin endpoints in one behaviour
MaxDisconnects == 2   \* WebSocket close events in one behaviour
MaxTimeouts == 1      \* response and dequeue timers that expire in one behaviour
MaxCancels == 1       \* client connections that close before the response has ended
MaxAborts == 1        \* error fragments whose message reports a user abort
MaxCalls == 3         \* dequeue() calls on a queue that is exercised on its own
MaxEnqueues == 3      \* enqueue() calls on a queue that is exercised on its own
MaxPeerIds == 2       \* request ids the peer exercised on its own is sent
MaxPeerAttempts == 2  \* attempts the server makes under one request id
MaxPeerOps == 3       \* operations the peer exercised on its own starts
MaxLiveTimeouts == 4  \* timers that expire while one request is followed to its end

\* ------------------------------------------------------- program constants
DefaultFailureThreshold == 3
ImmediateSwitchStatusCodes == {429, 503}
TimeoutStatus == 504
PeerDefaultStatus == 504

Requests == 1..MaxRequests
Sockets == {"ws1", "ws2"}
AuthIndices == 1..MaxAuthIndex

\* the targetIndex values an operator posts: the credential indices and one that
\* does not exist
TargetIndices == AuthIndices \cup {MaxAuthIndex + 1}

\* Status codes an upstream error fragment carries (error.status || 504).
ErrorStatuses == {429, 500}

RECURSIVE SortedSeq(_)
SortedSeq(S) ==
  IF S = {} THEN <<>>
  ELSE LET m == CHOOSE x \in S : \A y \in S : x <= y
       IN <<m>> \o SortedSeq(S \ {m})

\* availableIndices after _discoverAvailableIndices and _preValidateAndFilter:
\* the valid indices in increasing order, never empty once construction succeeded.
IndexLists == { SortedSeq(S) : S \in (SUBSET AuthIndices) \ {{}} }

\* Configurations the server is started with (config.json / environment).
Defaults == [failureThreshold |-> DefaultFailureThreshold, switchOnUses |-> 2, maxRetries |-> 1]
Retrying == [Defaults EXCEPT !.switchOnUses = 0, !.maxRetries = 2]
Disabled == [failureThreshold |-> 0, switchOnUses |-> 0, maxRetries |-> 1]

\* What the environment does in one behaviour.
Quota == [requests |-> 1, inflight |-> 1, peers |-> 1, admin |-> 0, disconnect |-> 0,
          timeout |-> 0, cancel |-> 0, abort |-> 0]

\* config.streamingMode: the default, or either value of STREAMING_MODE
Fake == {"fake"}
EitherMode == {"fake", "real"}

\* The behaviours explored: requests that arrive one after the other under every
\* configuration and credential set; concurrent requests with admin calls;
\* concurrent requests with peers that disconnect and reconnect; a request whose
\* timers expire; requests whose client goes away or whose upstream call is aborted.
Scenarios ==
  { [config |-> c, indices |-> IndexLists, modes |-> Fake,
     quota |-> [Quota EXCEPT !.requests = MaxRequests]] : c \in {Retrying, Disabled} }
  \cup
  { [config |-> Defaults, indices |-> {SortedSeq(AuthIndices)}, modes |-> Fake,
     quota |-> [Quota EXCEPT !.requests = MaxInFlight, !.inflight = MaxInFlight,
                             !.admin = MaxAdminOps]],
    [config |-> Disabled, indices |-> {<<MaxAuthIndex>>}, modes |-> Fake,
     quota |-> [Quota EXCEPT !.requests = MaxInFlight, !.inflight = MaxInFlight,
                             !.peers = MaxPeers, !.disconnect = MaxDisconnects]],
    [config |-> Retrying, indices |-> {SortedSeq(AuthIndices)}, modes |-> EitherMode,
     quota |-> [Quota EXCEPT !.timeout = MaxTimeouts, !.disconnect = MaxDisconnects]] }
  \cup
  { [config |-> c, indices |-> {SortedSeq(AuthIndices)}, modes |-> EitherMode,
     quota |-> [Quota EXCEPT !.cancel = MaxCancels, !.abort = MaxAborts]]
      : c \in {Retrying, [Retrying EXCEPT !.maxRetries = 1]} }

SeqToSet(s) == { s[i] : i \in 1..Len(s) }

VARIABLES
  config,                     \* this.config (fixed after _loadConfiguration)
  availableIndices,           \* authSource.availableIndices
  streamingMode,              \* serverSystem.streamingMode
  connections,                \* ConnectionRegistry.connections, in insertion order
  reconnectGraceTimer,        \* ConnectionRegistry.reconnectGraceTimer
  lostTimers,                 \* scheduled grace timeouts whose handle was overwritten
  messageQueues,              \* keys of ConnectionRegistry.messageQueues
  queue,                      \* the MessageQueue object of each request
  currentAuthIndex,           \* browserManager.currentAuthIndex
  failureCount,
  usageCount,
  isAuthSwitching,
  isSystemBusy,
  needsSwitchingAfterRequest,
  switchOp,                   \* the _switchToNextAuth/_switchToSpecificAuth call in progress
  req,                        \* per request: position in processRequest and its locals
  arrived,                    \* number of requests that have arrived
  peerOps,                    \* operations the browser peer is processing
  flagOwner,                  \* history: the requests that set needsSwitchingAfterRequest
  fRun,                       \* history: consecutive counted generative failures from 0
  fRunSwitches,               \* history: _switchToNextAuth calls made during that run
  multiPeer,                  \* history: two peers were registered at the same time
  events,                     \* what the environment may still do in this behaviour
  dequeueCalls,               \* a queue exercised on its own: the promise of each dequeue()
  enqueued,                   \* a queue exercised on its own: the arguments of enqueue();
                              \* the registry on its own: the data of its "message" events
  peer,                       \* the peer on its own: isConnected, activeOperations, and
                              \* what each of its operations has transmitted
  authEnv,                    \* process.env / the auth directory, as AuthSource reads them
  initialIndices,             \* authSource.initialIndices
  authBuilt,                  \* how new AuthSource() ended: "new", "ready", "failed"
  getAuthReturned             \* history: the last getAuth(index) call and its value

vars == << config, availableIndices, streamingMode, connections, reconnectGraceTimer,
           lostTimers, messageQueues, queue, currentAuthIndex, failureCount, usageCount,
           isAuthSwitching, isSystemBusy, needsSwitchingAfterRequest, switchOp, req,
           arrived, peerOps, flagOwner, fRun, fRunSwitches, multiPeer, events,
           dequeueCalls, enqueued, peer, authEnv, initialIndices, authBuilt,
           getAuthReturned >>

\* what no handler of the server changes
authVars == << authEnv, initialIndices, authBuilt, getAuthReturned >>
cfgVars == << config, availableIndices, dequeueCalls, enqueued, peer, authVars >>
registryVars == << connections, reconnectGraceTimer, lostTimers, multiPeer >>
queueVars == << messageQueues, queue >>
countVars == << failureCount, usageCount >>
lockVars == << isAuthSwitching, isSystemBusy, switchOp >>
histVars == << flagOwner, fRun, fRunSwitches >>
Count(kind) == events' = [events EXCEPT ![kind] = @ - 1]

\* ------------------------------------------------------------- messages
NoMsg == [event_type |-> "none", type |-> "none", request_id |-> 0, status |-> 0,
          data |-> 0, message |-> "", origin |-> 0, headers |-> {}]

\* Names of the headers of an upstream response, as Headers.forEach yields them
\* (lower case)
UpstreamHeaders == {"content-type", "content-length"}
\* response.status of a response that passed the response.ok test
OkStatuses == {200, 206}

\* Wire fragments the peer transmits (_transmitHeaders, _transmitChunk,
\* _transmitStreamEnd, _sendErrorResponse).  origin repeats request_id: it records
\* which request the peer stamped, also on the sentinel that carries no id.
HeadersMsg(id) == [NoMsg EXCEPT !.event_type = "response_headers", !.request_id = id,
                                !.status = 200, !.origin = id,
                                !.headers = UpstreamHeaders]
ChunkMsg(id, n) == [NoMsg EXCEPT !.event_type = "chunk", !.request_id = id,
                                 !.data = n, !.origin = id]
ErrorMsg(id, st, text) == [NoMsg EXCEPT !.event_type = "error", !.request_id = id,
                                        !.status = st, !.message = text, !.origin = id]
StreamCloseMsg(id) == [NoMsg EXCEPT !.event_type = "stream_close", !.request_id = id,
                                    !.origin = id]
\* { type: "STREAM_END" } as _routeMessage builds it
StreamEnd(id) == [NoMsg EXCEPT !.type = "STREAM_END", !.origin = id]

\* ---------------------------------------------------------- MessageQueue
NewQueue == [messages |-> <<>>, waitingResolvers |-> <<>>, closed |-> FALSE]
NoQueue == [messages |-> <<>>, waitingResolvers |-> <<>>, closed |-> TRUE]

\* enqueue without the closed test
EnqueueWhenClosed(q, m) ==
  IF Len(q.waitingResolvers) > 0
  THEN [q EXCEPT !.waitingResolvers = Tail(@)]
  ELSE [q EXCEPT !.messages = Append(@, m)]

\* enqueue(message): the queue afterwards
Enqueue(q, m) ==
  IF q.closed THEN q
  ELSE IF Len(q.waitingResolvers) > 0
       THEN [q EXCEPT !.waitingResolvers = Tail(@)]
       ELSE [q EXCEPT !.messages = Append(@, m)]

\* enqueue(message): the resolver that is resolved with the message (0: none)
EnqueueResolves(q) ==
  IF ~q.closed /\ Len(q.waitingResolvers) > 0 THEN Head(q.waitingResolvers) ELSE 0

\* dequeue reading the head of the buffer without shifting it
DequeueKeepsMessage(q, tok) ==
  IF q.closed \/ Len(q.messages) > 0 THEN q
  ELSE [q EXCEPT !.waitingResolvers = Append(@, tok)]

\* dequeue(): the queue afterwards, for a call that registers resolver tok
Dequeue(q, tok) ==
  IF q.closed THEN q
  ELSE IF Len(q.messages) > 0
       THEN [q EXCEPT !.messages = Tail(@)]
       ELSE [q EXCEPT !.waitingResolvers = Append(@, tok)]

\* the timeout callback closing nothing when a queue has a waiter
CloseKeepsWaiters(q) == IF Len(q.waitingResolvers) > 0 THEN q ELSE NoQueue

\* close()
Close(q) == [messages |-> <<>>, waitingResolvers |-> <<>>, closed |-> TRUE]

RemoveAt(s, i) == SubSeq(s, 1, i - 1) \o SubSeq(s, i + 1, Len(s))
IndexOf(s, x) ==
  IF \E i \in 1..Len(s) : s[i] = x
  THEN CHOOSE i \in 1..Len(s) : s[i] = x /\ \A j \in 1..(i - 1) : s[j] # x
  ELSE 0

\* the timeout callback leaving the resolver listed
TimeoutResolverKeeps(q, tok) == q

\* the setTimeout callback of dequeue: splice the resolver out if still listed
TimeoutResolver(q, tok) ==
  IF IndexOf(q.waitingResolvers, tok) # 0
  THEN [q EXCEPT !.waitingResolvers = RemoveAt(@, IndexOf(@, tok))]
  ELSE q

\* ------------------------------------------- values an awaited promise yields
NoVal == [kind |-> "none", msg |-> NoMsg, err |-> ""]
Void == [kind |-> "void", msg |-> NoMsg, err |-> ""]
MsgVal(m) == [kind |-> "msg", msg |-> m, err |-> ""]
Reject(e) == [kind |-> "reject", msg |-> NoMsg, err |-> e]

\* dequeue popping the newest buffered message
DequeueNewest(q) ==
  IF q.closed THEN Reject("Queue is closed")
  ELSE IF Len(q.messages) > 0 THEN MsgVal(q.messages[Len(q.messages)])
  ELSE NoVal

\* dequeue(): what the returned promise is settled with at once (NoVal: it waits)
DequeueNow(q) ==
  IF q.closed THEN Reject("Queue is closed")
  ELSE IF Len(q.messages) > 0 THEN MsgVal(Head(q.messages))
  ELSE NoVal

\* ------------------------------------------------------------- responses
\* a fresh ServerResponse: statusCode is 200 until res.status() changes it; body
\* lists what the handlers wrote; destroyed: the client closed the connection
NewRes == [headersSent |-> FALSE, writableEnded |-> FALSE, status |-> 200, body |-> <<>>,
           destroyed |-> FALSE, headers |-> {}]

\* res.write(chunk)
ResWrite(res, x) ==
  IF res.writableEnded THEN res
  ELSE [res EXCEPT !.headersSent = TRUE, !.body = Append(@, x)]
\* res.end()
ResEnd(res) ==
  IF res.writableEnded THEN res
  ELSE [res EXCEPT !.headersSent = TRUE, !.writableEnded = TRUE]
\* _sendErrorResponse(res, status, message)
SendErrorResponse(res, st) ==
  IF res.headersSent THEN res
  ELSE [res EXCEPT !.headersSent = TRUE, !.writableEnded = TRUE,
                   !.status = IF st = 0 THEN 500 ELSE st,
                   !.body = Append(@, <<"error_json", IF st = 0 THEN 500 ELSE st>>)]
\* _sendErrorChunkToClient(res, errorMessage)
SendErrorChunkToClient(res, x) ==
  IF res.writableEnded THEN res ELSE ResWrite(res, x)

\* ------------------------------------------------------------- requests
NewReq == [pc |-> "idle", is_generative |-> FALSE, streaming_mode |-> "fake",
           attempt |-> 0, ndq |-> 0, tok |-> 0, got |-> NoVal, authIndex |-> 0,
           lastMessage |-> NoMsg, dataMessage |-> NoMsg, res |-> NewRes]
Retired == [NewReq EXCEPT !.pc = "retired"]

NoSwitch == [kind |-> "none", phase |-> "none", previousAuthIndex |-> 0,
             target |-> 0, caller |-> [kind |-> "none", id |-> 0]]
\* callers of a switch that are not a request awaiting it
ByRequest(r) == [kind |-> "request", id |-> r]
Background == [kind |-> "background", id |-> 0]
Admin == [kind |-> "admin", id |-> 0]

\* ------------------------------------------------------------- the peer
\* An operation of the peer is known by the request_id of the message that
\* started it and the attempt of the server that sent it (0: a cancel_request).
PeerIds == 1..MaxPeerIds
PeerKeys == PeerIds \X (0..MaxPeerAttempts)
NoKey == << 0, 0 >>
\* new ProxySystem() once establish() has resolved: connected, no operation
NewPeer == [isConnected |-> TRUE,
            activeOperations |-> [i \in PeerIds |-> NoKey],
            transmitted |-> [k \in PeerKeys |-> <<>>]]

\* no continuation is runnable: the event loop takes the next macrotask
Quiet == \A r \in Requests : req[r].got = NoVal

Runnable(r, pc) == req[r].pc = pc /\ req[r].got # NoVal

InFlight == { r \in Requests : req[r].pc \notin {"idle", "retired"} }

\* ------------------------------------------------------------ AuthSource
\* What a credential source holds: nothing, something that cannot be read, the
\* empty string, text that is not JSON, a JSON document.
AuthContents == {"absent", "unreadable", "empty", "text", "json"}

\* One index of the environment: whether a name carrying the index is listed
\* (auth-<n>.json in the directory, AUTH_JSON_<n> in process.env; a name such as
\* auth-01.json lists index 1 without being the source of index 1) and what the
\* source of the index holds.  A source that exists is listed.
AuthEntries ==
  { e \in [listed : BOOLEAN, content : AuthContents] :
      e.content # "absent" => e.listed }

\* process.env.AUTH_JSON_1 is a non-empty string
EnvModeOf(entries) == entries[1].content \in {"text", "json"}

\* The environments: the variables of process.env (mode "env", where every
\* value is a string), or the auth directory, which may be missing or fail to
\* be listed.
AuthEnvs ==
  { [dir |-> "none", entries |-> en] :
      en \in { x \in [AuthIndices -> AuthEntries] :
                 /\ EnvModeOf(x)
                 /\ \A i \in AuthIndices : x[i].content # "unreadable" } }
  \cup
  { [dir |-> d, entries |-> en] :
      d \in {"listed", "missing", "unlistable"},
      en \in [AuthIndices -> AuthEntries] }

\* this.authMode after the constructor's test of process.env.AUTH_JSON_1
AuthMode(env) == IF env.dir = "none" THEN "env" ELSE "file"

\* _discoverAvailableIndices(): the indices of the listed names, without
\* duplicates, ascending; none when the directory is missing or cannot be listed
DiscoverAvailableIndices(env) ==
  IF AuthMode(env) = "file" /\ env.dir # "listed" THEN <<>>
  ELSE SortedSeq({ i \in AuthIndices : env.entries[i].listed })

\* _getAuthContent(index): the string read, or null ("null" here)
GetAuthContent(env, index) ==
  IF index \notin AuthIndices THEN "null"
  ELSE IF AuthMode(env) = "file" /\ env.dir # "listed" THEN "null"
  ELSE IF env.entries[index].content \in {"absent", "unreadable"} THEN "null"
  ELSE env.entries[index].content

\* `if (authContent)`: null and the empty string are falsy
Truthy(content) == content \notin {"null", "empty"}

\* JSON.parse(content): the value, or "throws"
JsonParse(content) == IF content = "json" THEN "object" ELSE "throws"

\* the pre-validation keeping every source that can be read
KeepsReadable(env, index) == Truthy(GetAuthContent(env, index))

\* The test of _preValidateAndFilter on one index.
KeepsValid(env, index) ==
  /\ Truthy(GetAuthContent(env, index))
  /\ JsonParse(GetAuthContent(env, index)) # "throws"

\* _preValidateAndFilter(): the discovered indices that pass, in order
PreValidateAndFilter(env, indices) == SelectSeq(indices, LAMBDA i : KeepsValid(env, i))

\* getAuth(index)
GetAuth(env, available, index) ==
  IF index \notin SeqToSet(available) THEN "null"
  ELSE IF ~Truthy(GetAuthContent(env, index)) THEN "null"
  ELSE IF JsonParse(GetAuthContent(env, index)) = "throws" THEN "null"
  ELSE JsonParse(GetAuthContent(env, index))

NoAuthCall == [index |-> 0, value |-> "none"]

\* The AuthSource of a running server: it was constructed from an auth directory
\* whose valid sources are `indices`.
AuthSourceBuilt(indices) ==
  /\ authEnv = [dir |-> "listed",
                entries |-> [i \in AuthIndices |->
                               IF i \in SeqToSet(indices)
                               THEN [listed |-> TRUE, content |-> "json"]
                               ELSE [listed |-> FALSE, content |-> "absent"]]]
  /\ initialIndices = indices
  /\ authBuilt = "ready"
  /\ getAuthReturned = NoAuthCall

Init ==
  /\ \E sc \in Scenarios :
       /\ config = sc.config
       /\ availableIndices \in sc.indices
       /\ events = sc.quota
       /\ streamingMode \in sc.modes
  /\ connections = <<>>
  /\ reconnectGraceTimer = "null"
  /\ lostTimers = 0
  /\ messageQueues = {}
  /\ queue = [r \in Requests |-> NoQueue]
  /\ currentAuthIndex \in SeqToSet(availableIndices)
  /\ failureCount = 0
  /\ usageCount = 0
  /\ isAuthSwitching = FALSE
  /\ isSystemBusy = FALSE
  /\ needsSwitchingAfterRequest = FALSE
  /\ switchOp = NoSwitch
  /\ req = [r \in Requests |-> NewReq]
  /\ arrived = 0
  /\ peerOps = {}
  /\ flagOwner = {}
  /\ fRun = 0
  /\ fRunSwitches = 0
  /\ multiPeer = FALSE
  /\ dequeueCalls = <<>>
  /\ enqueued = <<>>
  /\ peer = NewPeer
  /\ AuthSourceBuilt(availableIndices)

\* ------------------------------------------------------ ConnectionRegistry
\* addConnection(websocket): a peer's WebSocket is accepted
AddConnection(ws) ==
  /\ Quiet
  /\ ws \notin SeqToSet(connections)
  /\ Len(connections) < events.peers
  /\ reconnectGraceTimer' = IF reconnectGraceTimer # "null" THEN "null" ELSE reconnectGraceTimer
  /\ connections' = Append(connections, ws)
  /\ multiPeer' = (multiPeer \/ connections # <<>>)
  /\ UNCHANGED << events, cfgVars, streamingMode, lostTimers, queueVars, currentAuthIndex,
                  countVars, lockVars, needsSwitchingAfterRequest, req, arrived,
                  peerOps, histVars >>

\* _removeConnection(websocket): the socket's close event.  The peer's
\* "disconnected" handler has cancelled the operations that used the socket.
RemoveConnection(ws) ==
  /\ Quiet
  /\ ws \in SeqToSet(connections)
  /\ reconnectGraceTimer = "pending" => lostTimers < MaxLostTimers
  /\ events.disconnect > 0
  /\ Count("disconnect")
  /\ connections' = RemoveAt(connections, IndexOf(connections, ws))
  /\ lostTimers' = IF reconnectGraceTimer = "pending" THEN lostTimers + 1 ELSE lostTimers
  /\ reconnectGraceTimer' = "pending"
  /\ peerOps' = { op \in peerOps : op.sock # ws }
  /\ UNCHANGED << cfgVars, streamingMode, queueVars, currentAuthIndex, countVars,
                  lockVars, needsSwitchingAfterRequest, req, arrived, histVars,
                  multiPeer >>

\* The callback of the grace setTimeout: close every queue, clear the map,
\* emit connectionLost.  held: the timer reconnectGraceTimer refers to.
GraceTimerFires(held) ==
  /\ Quiet
  /\ IF held THEN reconnectGraceTimer = "pending" ELSE lostTimers > 0
  /\ reconnectGraceTimer' = IF held THEN "fired" ELSE reconnectGraceTimer
  /\ lostTimers' = IF held THEN lostTimers ELSE lostTimers - 1
  /\ queue' = [r \in Requests |-> IF r \in messageQueues THEN Close(queue[r]) ELSE queue[r]]
  /\ messageQueues' = {}
  /\ req' = [r \in Requests |->
               IF r \in messageQueues /\ req[r].tok # 0
                  /\ IndexOf(queue[r].waitingResolvers, req[r].tok) # 0
               THEN [req[r] EXCEPT !.got = Reject("Queue closed"), !.tok = 0]
               ELSE req[r]]
  /\ UNCHANGED << events, cfgVars, streamingMode, connections, multiPeer, currentAuthIndex,
                  countVars, lockVars, needsSwitchingAfterRequest, arrived, peerOps,
                  histVars >>

\* messageQueues.get ignoring the id: the oldest queue of the map
QueueForOldest(id) ==
  IF messageQueues # {}
  THEN CHOOSE q \in messageQueues : \A o \in messageQueues : q <= o
  ELSE 0

\* messageQueues.get(requestId) in _handleIncomingMessage (0: no queue)
QueueFor(id) == IF id \in messageQueues THEN id ELSE 0

\* every parsed message enqueued as it came
RoutedVerbatim(m) == m

\* _routeMessage: what is enqueued for a wire message (NoMsg: dropped)
Routed(m) ==
  IF m.event_type \in {"response_headers", "chunk", "error"} THEN m
  ELSE IF m.event_type = "stream_close" THEN StreamEnd(m.origin)
  ELSE NoMsg

\* _handleIncomingMessage(messageData) for the parsed message m
HandleIncomingMessage(m) ==
  LET t == IF m.request_id = 0 THEN 0 ELSE QueueFor(m.request_id)
      e == Routed(m)
  IN IF t = 0 \/ e = NoMsg
     THEN UNCHANGED << queue, req >>
     ELSE LET tok == EnqueueResolves(queue[t])
          IN /\ queue' = [queue EXCEPT ![t] = Enqueue(@, e)]
             /\ req' = IF tok # 0 /\ tok = req[t].tok
                       THEN [req EXCEPT ![t].got = MsgVal(e), ![t].tok = 0]
                       ELSE req

\* ------------------------------------------------------------------ peer
NewOp(r, rq, ws) == [id |-> r, att |-> rq.attempt, sock |-> ws,
                     mode |-> rq.streaming_mode, phase |-> "got", sent |-> 0]

\* The operation the peer starts for a cancel_request message: its
\* _handleIncomingMessage passes every message to _processProxyRequest.
CancelOp(r, ws) == [id |-> r, att |-> 0, sock |-> ws, mode |-> "fake",
                    phase |-> "cancel", sent |-> 0]

\* error.message of an AbortError, as the orchestrator looks for it
AbortText == "The user aborted a request"
\* error.message of the TypeError _constructUrl throws for a message without path
NoPathText == "Cannot read properties of undefined"

\* What an operation of the peer transmits next (_processProxyRequest), and the
\* operation afterwards ("end": it is over).
PeerSteps(op) ==
  LET errs == { [m |-> ErrorMsg(op.id, st, "upstream"), phase |-> "end", sent |-> op.sent]
                  : st \in ErrorStatuses }
              \cup {[m |-> ErrorMsg(op.id, PeerDefaultStatus, AbortText),
                     phase |-> "end", sent |-> op.sent]}
  IN IF op.phase = "cancel"
     THEN {[m |-> ErrorMsg(op.id, PeerDefaultStatus, NoPathText), phase |-> "end", sent |-> 0]}
     ELSE IF op.phase = "got"
     THEN errs \cup { [m |-> [HeadersMsg(op.id) EXCEPT !.status = st], phase |-> "hdr",
                        sent |-> 0] : st \in IF op.mode = "real" THEN OkStatuses ELSE {200} }
     ELSE IF op.phase = "hdr" /\ op.mode = "real"
     THEN errs \cup {[m |-> StreamCloseMsg(op.id), phase |-> "end", sent |-> op.sent]}
          \cup (IF op.sent < MaxChunks
                THEN {[m |-> ChunkMsg(op.id, op.sent + 1), phase |-> "hdr", sent |-> op.sent + 1]}
                ELSE {})
     ELSE IF op.phase = "hdr"
     THEN errs \cup {[m |-> ChunkMsg(op.id, 1), phase |-> "body", sent |-> 1],
                     [m |-> StreamCloseMsg(op.id), phase |-> "end", sent |-> 0]}
     ELSE {[m |-> StreamCloseMsg(op.id), phase |-> "end", sent |-> op.sent]}

\* The peer transmits a fragment and the registry's "message" handler runs.
PeerTransmits(op) ==
  /\ Quiet
  /\ op \in peerOps
  /\ op.sock \in SeqToSet(connections)
  /\ \E s \in PeerSteps(op) :
       /\ s.m.message = AbortText => events.abort > 0
       /\ events' = IF s.m.message = AbortText
                    THEN [events EXCEPT !.abort = @ - 1] ELSE events
       /\ peerOps' = (peerOps \ {op}) \cup
                       (IF s.phase = "end" THEN {}
                        ELSE {[op EXCEPT !.phase = s.phase, !.sent = s.sent]})
       /\ HandleIncomingMessage(s.m)
  /\ UNCHANGED << cfgVars, streamingMode, registryVars, messageQueues, currentAuthIndex,
                  countVars, lockVars, needsSwitchingAfterRequest, arrived, histVars >>

\* ------------------------------------------------------ rotation controller
\* the rotation always restarting at the first index
NextAuthIndexFirst(available, current) == available[1]

\* The body of _getNextAuthIndex() on a non-empty list: indexOf, then the
\* element after it modulo the length (positions count from 1 here).
NextAuthIndex(available, current) ==
  LET i == IndexOf(available, current)
  IN IF i = 0 THEN available[1]
     ELSE available[(i % Len(available)) + 1]

\* _getNextAuthIndex()
GetNextAuthIndex == NextAuthIndex(availableIndices, currentAuthIndex)

\* the single-account guard letting one account through
SwitchToNextOutcomeLax ==
  IF Len(availableIndices) < 1 THEN "only_one"
  ELSE IF isAuthSwitching THEN "in_progress"
  ELSE "start"

\* The guards at the head of _switchToNextAuth: what the call does.
SwitchToNextOutcome ==
  IF Len(availableIndices) <= 1 THEN "only_one"
  ELSE IF isAuthSwitching THEN "in_progress"
  ELSE "start"

\* the target taken without looking it up in availableIndices
SwitchToSpecificOutcomeUnvalidated(targetIndex) ==
  IF isAuthSwitching THEN "in_progress" ELSE "start"

\* The guards at the head of _switchToSpecificAuth(targetIndex).
SwitchToSpecificOutcome(targetIndex) ==
  IF isAuthSwitching THEN "in_progress"
  ELSE IF targetIndex \notin SeqToSet(availableIndices) THEN "invalid"
  ELSE "start"

SwitchResult(x) == [kind |-> "switch", msg |-> NoMsg, err |-> x]

\* What the caller of _switchToNextAuth gets back before any activation ends
\* (NoVal: the call took the lock and awaits browserManager.switchAccount).
SwitchToNextReturns ==
  IF SwitchToNextOutcome = "only_one" THEN Reject("Only one account is available")
  ELSE IF SwitchToNextOutcome = "in_progress" THEN SwitchResult("in_progress")
  ELSE NoVal

\* _switchToNextAuth() up to its first await, called by `caller`.
SwitchToNextAuth(caller) ==
  IF SwitchToNextOutcome = "start"
  THEN /\ isSystemBusy' = TRUE
       /\ isAuthSwitching' = TRUE
       /\ switchOp' = [kind |-> "next", phase |-> "primary",
                       previousAuthIndex |-> currentAuthIndex,
                       target |-> GetNextAuthIndex, caller |-> caller]
  ELSE /\ UNCHANGED lockVars

\* _switchToSpecificAuth(targetIndex) up to its first await.
SwitchToSpecificAuth(targetIndex) ==
  IF SwitchToSpecificOutcome(targetIndex) = "start"
  THEN /\ isSystemBusy' = TRUE
       /\ isAuthSwitching' = TRUE
       /\ switchOp' = [kind |-> "specific", phase |-> "primary",
                       previousAuthIndex |-> currentAuthIndex,
                       target |-> targetIndex, caller |-> Admin]
  ELSE /\ UNCHANGED lockVars

\* a fallback that succeeded taken for a switch that succeeded
SwitchStepFallbackAsSuccess(ok) ==
  IF switchOp.phase = "primary"
  THEN IF ok THEN "success"
       ELSE IF switchOp.kind = "next" THEN "retry" ELSE "failed"
  ELSE IF ok THEN "success" ELSE "fatal"

\* How the activation awaited by the switch in progress can end, given whether
\* launchOrSwitchContext succeeded: "success", "fallback" (returned), "retry"
\* (the previous index is activated next), "failed", "fatal" (thrown).
SwitchStep(ok) ==
  IF switchOp.phase = "primary"
  THEN IF ok THEN "success"
       ELSE IF switchOp.kind = "next" THEN "retry" ELSE "failed"
  ELSE IF ok THEN "fallback" ELSE "fatal"

\* the lock kept when the target and the fallback both fail
SwitchUnlocksUnlessFatal(step) == step \notin {"retry", "fatal"}

\* The finally blocks of _switchToNextAuth and _switchToSpecificAuth run on every
\* way out of the call.
SwitchUnlocks(step) == step # "retry"

\* the index assigned when the activation starts, whatever its outcome
IndexAfterEarly(step) ==
  IF switchOp.phase = "primary" THEN switchOp.target ELSE switchOp.previousAuthIndex

\* browserManager.currentAuthIndex after the activation awaited by the switch
\* ended with `step`: launchOrSwitchContext assigns the index it was called with
\* as the last statement of its try block, and nothing else assigns it.
IndexAfter(step) ==
  IF step = "success" THEN switchOp.target
  ELSE IF step = "fallback" THEN switchOp.previousAuthIndex
  ELSE currentAuthIndex

BreakRun == fRun' = 0 /\ fRunSwitches' = 0

\* The activation the switch in progress awaits ends (macrotask).
SwitchActivationEnds(ok) ==
  LET step == SwitchStep(ok)
      c == switchOp.caller
      val == IF step \in {"success", "fallback"} THEN SwitchResult(step)
             ELSE Reject(step)
  IN /\ Quiet
     /\ switchOp.phase # "none"
     /\ currentAuthIndex' = IndexAfter(step)
     /\ failureCount' = IF step \in {"success", "fallback"} THEN 0 ELSE failureCount
     /\ usageCount' = IF step \in {"success", "fallback"} THEN 0 ELSE usageCount
     /\ IF step = "retry"
        THEN /\ switchOp' = [switchOp EXCEPT !.phase = "fallback"]
             /\ UNCHANGED << isAuthSwitching, isSystemBusy, req >>
        ELSE /\ switchOp' = NoSwitch
             /\ isAuthSwitching' = IF SwitchUnlocks(step) THEN FALSE ELSE isAuthSwitching
             /\ isSystemBusy' = IF SwitchUnlocks(step) THEN FALSE ELSE isSystemBusy
             /\ req' = IF c.kind = "request"
                       THEN [req EXCEPT ![c.id].got = val]
                       ELSE req
     /\ BreakRun
     /\ UNCHANGED << events, cfgVars, streamingMode, registryVars, queueVars,
                     needsSwitchingAfterRequest, arrived, peerOps, flagOwner >>

\* GET /admin/switch, POST /api/switch-account without targetIndex
AdminSwitch ==
  /\ Quiet
  /\ events.admin > 0
  /\ Count("admin")
  /\ IF Len(availableIndices) <= 1
     THEN UNCHANGED << lockVars, fRun, fRunSwitches >>
     ELSE /\ SwitchToNextAuth(Admin)
          /\ BreakRun
  /\ UNCHANGED << cfgVars, streamingMode, registryVars, queueVars, currentAuthIndex,
                  countVars, needsSwitchingAfterRequest, req, arrived, peerOps,
                  flagOwner >>

\* POST /api/switch-account with targetIndex
AdminSwitchSpecific(targetIndex) ==
  /\ Quiet
  /\ events.admin > 0
  /\ Count("admin")
  /\ SwitchToSpecificAuth(targetIndex)
  /\ BreakRun
  /\ UNCHANGED << cfgVars, streamingMode, registryVars, queueVars, currentAuthIndex,
                  countVars, needsSwitchingAfterRequest, req, arrived, peerOps,
                  flagOwner >>

\* GET /admin/set-mode, POST /api/set-mode
AdminSetMode(mode) ==
  /\ Quiet
  /\ events.admin > 0
  /\ Count("admin")
  /\ streamingMode # mode
  /\ streamingMode' = mode
  /\ UNCHANGED << cfgVars, registryVars, queueVars, currentAuthIndex, countVars,
                  lockVars, needsSwitchingAfterRequest, req, arrived, peerOps,
                  histVars >>

\* ------------------------------------------------------ request orchestrator
\* _handleRequestError(error, res)
HandleRequestError(res) ==
  IF res.headersSent
  THEN ResEnd(IF streamingMode = "fake"
              THEN SendErrorChunkToClient(res, <<"error_chunk", 0>>)
              ELSE res)
  ELSE SendErrorResponse(res, 500)

\* lastMessage.message.includes("The user aborted a request")
Aborted(m) == m.message = AbortText

\* the first isSystemBusy check left out
AdmissionGateUnchecked(hasActiveConnections, busy) ==
  IF ~hasActiveConnections THEN "recover"
  ELSE IF busy THEN "reject" ELSE "admit"

\* The two isSystemBusy checks at the head of processRequest: what happens to
\* a request that arrives.
AdmissionGate(hasActiveConnections, busy) ==
  IF ~hasActiveConnections
  THEN IF busy THEN "reject" ELSE "recover"
  ELSE IF busy THEN "reject" ELSE "admit"

Goto(rq, pc) == [rq EXCEPT !.pc = pc, !.got = Void, !.tok = 0]

\* await messageQueue.dequeue(): the request waits at pc for the value
AwaitDequeue(r, rq, q0, pc) ==
  /\ queue' = [queue EXCEPT ![r] = Dequeue(q0, rq.ndq + 1)]
  /\ req' = [req EXCEPT ![r] =
               [rq EXCEPT !.pc = pc, !.ndq = @ + 1, !.got = DequeueNow(q0),
                          !.tok = IF DequeueNow(q0) = NoVal THEN rq.ndq + 1 ELSE 0]]

\* _forwardRequest(proxyRequest): the peer on the first connection starts an operation
ForwardRequest(r, rq) == peerOps' = peerOps \cup {NewOp(r, rq, connections[1])}

\* One pass of the retry loop of _handlePseudoStreamResponse up to its await.
PseudoAttempt(r, rq, q0) ==
  IF connections = <<>>
  THEN /\ req' = [req EXCEPT ![r] = [Goto(rq, "finally") EXCEPT
                                       !.res = ResEnd(HandleRequestError(rq.res))]]
       /\ queue' = [queue EXCEPT ![r] = q0]
       /\ UNCHANGED peerOps
  ELSE /\ ForwardRequest(r, rq)
       /\ AwaitDequeue(r, rq, q0, "pseudo_first")

\* _handleRealStreamResponse up to its first await.
RealStart(r, rq, q0) ==
  IF connections = <<>>
  THEN /\ req' = [req EXCEPT ![r] = [Goto(rq, "finally") EXCEPT
                                       !.res = HandleRequestError(rq.res)]]
       /\ queue' = [queue EXCEPT ![r] = q0]
       /\ UNCHANGED peerOps
  ELSE /\ ForwardRequest(r, rq)
       /\ AwaitDequeue(r, rq, q0, "real_header")

\* the immediate switch tied to an enabled threshold
IsImmediateSwitchGated(status) ==
  config.failureThreshold > 0 /\ status \in ImmediateSwitchStatusCodes

\* config.immediateSwitchStatusCodes.includes(errorDetails.status)
IsImmediateSwitch(status) == status \in ImmediateSwitchStatusCodes

\* the threshold compared with > instead of >=
IsThresholdReachedLate(cnt) ==
  config.failureThreshold > 0 /\ cnt > config.failureThreshold

\* failureThreshold > 0 && failureCount >= failureThreshold, after the increment
IsThresholdReached(cnt) ==
  config.failureThreshold > 0 /\ cnt >= config.failureThreshold

\* _handleRequestFailureAndSwitch(errorDetails, res) up to its await, called by
\* request r whose locals are rq.
HandleRequestFailureAndSwitch(r, rq, status) ==
  LET cnt == IF config.failureThreshold > 0 THEN failureCount + 1 ELSE failureCount
      invoked == IsImmediateSwitch(status) \/ IsThresholdReached(cnt)
      counted == rq.is_generative /\ ~IsImmediateSwitch(status)
                 /\ config.failureThreshold > 0
      run == IF ~counted THEN 0
             ELSE IF failureCount = 0 THEN 1
             ELSE IF fRun > 0 /\ fRun < DefaultFailureThreshold THEN fRun + 1 ELSE 0
  IN /\ failureCount' = cnt
     /\ fRun' = run
     /\ fRunSwitches' = IF run = 0 THEN 0
                        ELSE (IF failureCount = 0 THEN 0 ELSE fRunSwitches)
                             + (IF invoked THEN 1 ELSE 0)
     /\ IF invoked
        THEN /\ SwitchToNextAuth(ByRequest(r))
             /\ req' = [req EXCEPT ![r] = [rq EXCEPT !.pc = "switching", !.tok = 0,
                                                     !.got = SwitchToNextReturns]]
        ELSE /\ UNCHANGED lockVars
             /\ req' = [req EXCEPT ![r] = Goto(rq, "after_failure")]

\* An HTTP request reaches processRequest.
Arrive(r, gen) ==
  LET gate == AdmissionGate(connections # <<>>, isSystemBusy)
      rq == [NewReq EXCEPT !.is_generative = gen]
  IN /\ Quiet
     /\ r = arrived + 1
     /\ r <= events.requests
     /\ Cardinality(InFlight) < events.inflight
     /\ arrived' = r
     /\ isSystemBusy' = IF gate = "recover" THEN TRUE ELSE isSystemBusy
     /\ req' = [req EXCEPT ![r] =
                  IF gate = "reject"
                  THEN [Goto(rq, "done") EXCEPT !.res = SendErrorResponse(rq.res, 503)]
                  ELSE IF gate = "recover"
                  THEN [rq EXCEPT !.pc = "recovering", !.authIndex = currentAuthIndex]
                  ELSE Goto(rq, "admit")]
     /\ UNCHANGED << events, cfgVars, streamingMode, registryVars, queueVars, currentAuthIndex,
                     countVars, isAuthSwitching, switchOp, needsSwitchingAfterRequest,
                     peerOps, histVars >>

\* The finally of the recovery block in processRequest.
RecoveryUnlocks(ok) == TRUE

\* launchOrSwitchContext(currentAuthIndex) awaited by the recovery of r ends.
RecoveryEnds(r, ok) ==
  /\ Quiet
  /\ req[r].pc = "recovering"
  /\ currentAuthIndex' = IF ok THEN req[r].authIndex ELSE currentAuthIndex
  /\ isSystemBusy' = IF RecoveryUnlocks(ok) THEN FALSE ELSE isSystemBusy
  /\ req' = [req EXCEPT ![r] =
               IF ok THEN Goto(@, "admit")
               ELSE [Goto(@, "done") EXCEPT !.res = SendErrorResponse(@, 503)]]
  /\ UNCHANGED << events, cfgVars, streamingMode, registryVars, queueVars, countVars,
                  isAuthSwitching, switchOp, needsSwitchingAfterRequest, arrived,
                  peerOps, histVars >>

\* processRequest from the second isSystemBusy check to the first await of the
\* response handler.
ResumeAdmit(r) ==
  LET rq == [req[r] EXCEPT !.streaming_mode = streamingMode, !.attempt = 1]
      counted == config.switchOnUses > 0 /\ rq.is_generative
      flagged == counted /\ usageCount + 1 >= config.switchOnUses
  IN /\ Runnable(r, "admit")
     /\ IF isSystemBusy
        THEN /\ req' = [req EXCEPT ![r] =
                          [Goto(@, "done") EXCEPT !.res = SendErrorResponse(@, 503)]]
             /\ UNCHANGED << queueVars, usageCount, needsSwitchingAfterRequest,
                             peerOps, flagOwner >>
        ELSE /\ usageCount' = IF counted THEN usageCount + 1 ELSE usageCount
             /\ needsSwitchingAfterRequest' = (needsSwitchingAfterRequest \/ flagged)
             /\ flagOwner' = IF flagged THEN flagOwner \cup {r} ELSE flagOwner
             /\ messageQueues' = messageQueues \cup {r}
             /\ IF streamingMode = "fake"
                THEN PseudoAttempt(r, rq, NewQueue)
                ELSE RealStart(r, rq, NewQueue)
     /\ UNCHANGED << events, cfgVars, streamingMode, registryVars, currentAuthIndex,
                     failureCount, lockVars, arrived, fRun, fRunSwitches >>

\* The catch of the Promise.race in the retry loop: the synthesized error.
TimeoutMessage(text) == [NoMsg EXCEPT !.event_type = "error", !.status = TimeoutStatus,
                                      !.message = text]

\* What is left unchanged by a continuation that touches only its own request,
\* its queue, the counters and the rotation lock.
TimerFrame == UNCHANGED << cfgVars, streamingMode, registryVars, messageQueues,
                           currentAuthIndex, usageCount, needsSwitchingAfterRequest,
                           arrived, flagOwner >>
ResumeFrame == TimerFrame /\ UNCHANGED events

\* A generative request succeeded: the success branch of both handlers.
SuccessReset(rq) ==
  /\ failureCount' = IF rq.is_generative /\ failureCount > 0 THEN 0 ELSE failureCount
  /\ IF rq.is_generative THEN BreakRun ELSE UNCHANGED << fRun, fRunSwitches >>

\* _handlePseudoStreamResponse after `lastMessage = await Promise.race(...)`.
ResumePseudoFirst(r) ==
  LET v == req[r].got
      lastMessage == IF v.kind = "msg" THEN v.msg ELSE TimeoutMessage(v.err)
      rq == [req[r] EXCEPT !.lastMessage = lastMessage]
  IN /\ Runnable(r, "pseudo_first")
     /\ IF lastMessage.event_type = "error"
        THEN IF rq.attempt < config.maxRetries
             THEN /\ req' = [req EXCEPT ![r] = [rq EXCEPT !.pc = "retry_delay",
                                                          !.got = NoVal, !.tok = 0]]
                  /\ UNCHANGED << queue, peerOps, failureCount, lockVars, fRun, fRunSwitches >>
             ELSE IF Aborted(lastMessage)
             THEN /\ req' = [req EXCEPT ![r] = [Goto(rq, "finally") EXCEPT !.res = ResEnd(@)]]
                  /\ UNCHANGED << queue, peerOps, failureCount, lockVars, fRun, fRunSwitches >>
             ELSE /\ HandleRequestFailureAndSwitch(r, rq, lastMessage.status)
                  /\ UNCHANGED << queue, peerOps >>
        ELSE /\ SuccessReset(rq)
             /\ AwaitDequeue(r, rq, queue[r], "pseudo_data")
             /\ UNCHANGED << peerOps, lockVars >>
     /\ ResumeFrame

\* The retryDelay timer of a failed attempt expires: the next pass of the loop.
RetryDelayEnds(r) ==
  /\ Quiet
  /\ req[r].pc = "retry_delay"
  /\ PseudoAttempt(r, [req[r] EXCEPT !.attempt = @ + 1], queue[r])
  /\ UNCHANGED << failureCount, lockVars, fRun, fRunSwitches >>
  /\ ResumeFrame

\* the 300 s timer cleared as soon as the dequeue is pending: it never expires
CeilingTimeoutCleared(r) ==
  /\ req[r].pc = "pseudo_first"
  /\ FALSE
  /\ UNCHANGED vars

\* The 300 s timer raced against the first dequeue of an attempt expires.  The
\* resolver the dequeue registered stays in the queue.
CeilingTimeout(r) ==
  /\ Quiet
  /\ events.timeout > 0
  /\ Count("timeout")
  /\ req[r].pc = "pseudo_first"
  /\ req' = [req EXCEPT ![r].got = Reject("Response from browser timed out after 300 seconds"),
                        ![r].tok = 0]
  /\ UNCHANGED << queue, peerOps, failureCount, lockVars, fRun, fRunSwitches >>
  /\ TimerFrame

\* The timeout of a dequeue() call expires.  The first dequeue of a
\* pseudo-stream attempt (600 s) loses the race against the 300 s ceiling.
ResolverTimeout(r, tok) ==
  /\ Quiet
  /\ events.timeout > 0
  /\ Count("timeout")
  /\ IndexOf(queue[r].waitingResolvers, tok) # 0
  /\ ~(req[r].pc = "pseudo_first" /\ req[r].tok = tok)
  /\ queue' = [queue EXCEPT ![r] = TimeoutResolver(@, tok)]
  /\ req' = IF req[r].tok = tok
            THEN [req EXCEPT ![r].got = Reject("Queue timeout"), ![r].tok = 0]
            ELSE req
  /\ UNCHANGED << peerOps, failureCount, lockVars, fRun, fRunSwitches >>
  /\ TimerFrame

\* _handleRequestFailureAndSwitch after `await this._switchToNextAuth()`.
ResumeSwitching(r) ==
  LET v == req[r].got
      onlyOne == v.kind = "reject" /\ v.err = "Only one account is available"
      note == IF v.kind = "reject" THEN <<"switch_failed", 0>> ELSE <<"switch_done", 0>>
  IN /\ Runnable(r, "switching")
     /\ failureCount' = IF onlyOne THEN 0 ELSE failureCount
     /\ IF onlyOne THEN BreakRun ELSE UNCHANGED << fRun, fRunSwitches >>
     /\ req' = [req EXCEPT ![r] =
                  [Goto(@, "after_failure") EXCEPT
                     !.res = IF req[r].streaming_mode = "fake"
                             THEN SendErrorChunkToClient(@, note) ELSE @]]
     /\ UNCHANGED << queue, peerOps, lockVars >>
     /\ ResumeFrame

\* Both handlers after `await this._handleRequestFailureAndSwitch(...)`.
ResumeAfterFailure(r) ==
  /\ Runnable(r, "after_failure")
  /\ req' = [req EXCEPT ![r] =
               [Goto(@, "finally") EXCEPT
                  !.res = IF req[r].streaming_mode = "fake"
                          THEN ResEnd(SendErrorChunkToClient(@, <<"final_failure", req[r].lastMessage.status>>))
                          ELSE SendErrorResponse(@, req[r].lastMessage.status)]]
  /\ UNCHANGED << queue, peerOps, failureCount, lockVars, fRun, fRunSwitches >>
  /\ ResumeFrame

\* the catch and finally of _handlePseudoStreamResponse for a thrown error
PseudoThrows(rq) == [Goto(rq, "finally") EXCEPT !.res = ResEnd(HandleRequestError(@))]

\* _handlePseudoStreamResponse after `dataMessage = await messageQueue.dequeue()`.
ResumePseudoData(r) ==
  LET v == req[r].got
  IN /\ Runnable(r, "pseudo_data")
     /\ IF v.kind = "reject"
        THEN /\ req' = [req EXCEPT ![r] = PseudoThrows(@)]
             /\ UNCHANGED queue
        ELSE AwaitDequeue(r, [req[r] EXCEPT !.dataMessage = v.msg], queue[r], "pseudo_end")
     /\ UNCHANGED << peerOps, failureCount, lockVars, fRun, fRunSwitches >>
     /\ ResumeFrame

\* the terminal marker written without the body
PseudoSuccessMarkerOnly(res, d) == ResEnd(ResWrite(res, <<"done", 0>>))

\* The success branch of _handlePseudoStreamResponse once both fragments are
\* there: `data: <dataMessage.data>` if there is data, `data: [DONE]`, res.end().
PseudoSuccess(res, d) ==
  ResEnd(ResWrite(IF d # 0 THEN ResWrite(res, <<"data", d>>) ELSE res, <<"done", 0>>))

\* _handlePseudoStreamResponse after `endMessage = await messageQueue.dequeue()`.
ResumePseudoEnd(r) ==
  LET v == req[r].got
      d == req[r].dataMessage.data
  IN /\ Runnable(r, "pseudo_end")
     /\ req' = [req EXCEPT ![r] =
                  IF v.kind = "reject" THEN PseudoThrows(@)
                  ELSE [Goto(@, "finally") EXCEPT !.res = PseudoSuccess(@, d)]]
     /\ UNCHANGED << queue, peerOps, failureCount, lockVars, fRun, fRunSwitches >>
     /\ ResumeFrame

\* _setResponseHeaders copying every header
SetResponseHeadersAll(res, headerMessage) ==
  [res EXCEPT !.status = IF headerMessage.status = 0 THEN 200 ELSE headerMessage.status,
              !.headers = headerMessage.headers]

\* _setResponseHeaders(res, headerMessage)
SetResponseHeaders(res, headerMessage) ==
  [res EXCEPT !.status = IF headerMessage.status = 0 THEN 200 ELSE headerMessage.status,
              !.headers = { name \in headerMessage.headers : name # "content-length" }]

\* _handleRealStreamResponse after `headerMessage = await messageQueue.dequeue()`.
ResumeRealHeader(r) ==
  LET v == req[r].got
      rq == [req[r] EXCEPT !.lastMessage = v.msg]
  IN /\ Runnable(r, "real_header")
     /\ IF v.kind = "reject"
        THEN /\ req' = [req EXCEPT ![r] = [Goto(@, "finally") EXCEPT !.res = HandleRequestError(@)]]
             /\ UNCHANGED << queue, failureCount, lockVars, fRun, fRunSwitches >>
        ELSE IF v.msg.event_type = "error"
        THEN IF Aborted(v.msg)
             THEN /\ req' = [req EXCEPT ![r] = [Goto(rq, "finally") EXCEPT !.res = ResEnd(@)]]
                  /\ UNCHANGED << queue, failureCount, lockVars, fRun, fRunSwitches >>
             ELSE /\ HandleRequestFailureAndSwitch(r, rq, v.msg.status)
                  /\ UNCHANGED queue
        ELSE /\ SuccessReset(rq)
             /\ AwaitDequeue(r, [rq EXCEPT !.res = SetResponseHeaders(@, v.msg)],
                             queue[r], "real_stream")
             /\ UNCHANGED lockVars
     /\ UNCHANGED peerOps
     /\ ResumeFrame

\* _handleRealStreamResponse after `dataMessage = await messageQueue.dequeue(30000)`.
ResumeRealStream(r) ==
  LET v == req[r].got
  IN /\ Runnable(r, "real_stream")
     /\ IF v.kind = "reject"
        THEN /\ req' = [req EXCEPT ![r] =
                          [Goto(@, "finally") EXCEPT
                             !.res = IF v.err = "Queue timeout" THEN ResEnd(@)
                                     ELSE HandleRequestError(ResEnd(@))]]
             /\ UNCHANGED queue
        ELSE IF v.msg.type = "STREAM_END"
        THEN /\ req' = [req EXCEPT ![r] = [Goto(@, "finally") EXCEPT !.res = ResEnd(@)]]
             /\ UNCHANGED queue
        ELSE AwaitDequeue(r, [req[r] EXCEPT !.res = IF v.msg.data # 0
                                                    THEN ResWrite(@, <<"data", v.msg.data>>)
                                                    ELSE @],
                          queue[r], "real_stream")
     /\ UNCHANGED << peerOps, failureCount, lockVars, fRun, fRunSwitches >>
     /\ ResumeFrame

\* _cancelBrowserRequest(requestId): the cancel_request message reaches the peer
\* on the first connection, if there is one.
CancelBrowserRequest(r) ==
  peerOps' = IF connections # <<>> THEN peerOps \cup {CancelOp(r, connections[1])}
             ELSE peerOps

\* The "close" event of res while the response has not ended: the client went away.
ClientCloses(r) ==
  /\ Quiet
  /\ events.cancel > 0
  /\ Count("cancel")
  /\ req[r].pc \notin {"idle", "done", "retired"}
  /\ ~req[r].res.writableEnded
  /\ ~req[r].res.destroyed
  /\ req' = [req EXCEPT ![r].res.destroyed = TRUE]
  /\ CancelBrowserRequest(r)
  /\ UNCHANGED << queue, failureCount, lockVars, fRun, fRunSwitches >>
  /\ TimerFrame

\* the queue closed but left in the map
RemoveMessageQueueKeepsKey(keys, r) == keys

\* removeMessageQueue(requestId): the keys of messageQueues afterwards
RemoveMessageQueue(keys, r) == keys \ {r}

\* The finally of processRequest: removeMessageQueue, then the deferred rotation.
\* Fragments for a request id without a queue are dropped by _handleIncomingMessage,
\* so what the peer still sends for r is not followed further.
ProcessRequestFinally(r) ==
  /\ Runnable(r, "finally")
  /\ queue' = [queue EXCEPT ![r] = IF r \in messageQueues THEN Close(@) ELSE @]
  /\ messageQueues' = RemoveMessageQueue(messageQueues, r)
  /\ IF needsSwitchingAfterRequest
     THEN /\ SwitchToNextAuth(Background)
          /\ BreakRun
     ELSE UNCHANGED << lockVars, fRun, fRunSwitches >>
  /\ needsSwitchingAfterRequest' = FALSE
  /\ flagOwner' = IF needsSwitchingAfterRequest THEN {} ELSE flagOwner
  /\ req' = [req EXCEPT ![r] = Goto(@, "done")]
  /\ peerOps' = { op \in peerOps : op.id # r }
  /\ UNCHANGED << events, cfgVars, streamingMode, registryVars, currentAuthIndex, countVars,
                  arrived >>

\* processRequest has returned: its locals and the response object are dropped.
Retire(r) ==
  /\ Runnable(r, "done")
  /\ req' = [req EXCEPT ![r] = Retired]
  /\ UNCHANGED << events, cfgVars, streamingMode, registryVars, queueVars, currentAuthIndex,
                  countVars, lockVars, needsSwitchingAfterRequest, arrived, peerOps,
                  histVars >>

Next ==
  \/ \E ws \in Sockets : AddConnection(ws)
  \/ \E ws \in Sockets : RemoveConnection(ws)
  \/ \E held \in BOOLEAN : GraceTimerFires(held)
  \/ \E op \in peerOps : PeerTransmits(op)
  \/ \E ok \in BOOLEAN : SwitchActivationEnds(ok)
  \/ AdminSwitch
  \/ \E t \in TargetIndices : AdminSwitchSpecific(t)
  \/ \E mode \in {"fake", "real"} : AdminSetMode(mode)
  \/ \E r \in Requests, gen \in BOOLEAN : Arrive(r, gen)
  \/ \E r \in Requests, ok \in BOOLEAN : RecoveryEnds(r, ok)
  \/ \E r \in Requests : ResumeAdmit(r)
  \/ \E r \in Requests : ResumePseudoFirst(r)
  \/ \E r \in Requests : RetryDelayEnds(r)
  \/ \E r \in Requests : CeilingTimeout(r)
  \/ \E r \in Requests, tok \in 1..8 : ResolverTimeout(r, tok)
  \/ \E r \in Requests : ResumeSwitching(r)
  \/ \E r \in Requests : ResumeAfterFailure(r)
  \/ \E r \in Requests : ResumePseudoData(r)
  \/ \E r \in Requests : ResumePseudoEnd(r)
  \/ \E r \in Requests : ResumeRealHeader(r)
  \/ \E r \in Requests : ResumeRealStream(r)
  \/ \E r \in Requests : ClientCloses(r)
  \/ \E r \in Requests : ProcessRequestFinally(r)
  \/ \E r \in Requests : Retire(r)

Spec == Init /\ [][Next]_vars

\* ------------------------------------------------ the server with its timers
\* The server followed until its requests have ended: every timer that is
\* scheduled expires in the end, every continuation is run, and the activations
\* of the browser context terminate.
LiveScenarios ==
  { [config |-> [Defaults EXCEPT !.maxRetries = 2], indices |-> {SortedSeq(AuthIndices)},
     modes |-> Fake,
     quota |-> [Quota EXCEPT !.timeout = MaxLiveTimeouts]],
    [config |-> Defaults, indices |-> {SortedSeq(AuthIndices)}, modes |-> EitherMode,
     quota |-> [Quota EXCEPT !.timeout = MaxLiveTimeouts, !.admin = MaxAdminOps]],
    [config |-> Defaults, indices |-> {SortedSeq(AuthIndices)}, modes |-> EitherMode,
     quota |-> [Quota EXCEPT !.timeout = MaxLiveTimeouts, !.disconnect = 1,
                             !.cancel = MaxCancels]] }

LiveInit ==
  /\ \E sc \in LiveScenarios :
       /\ config = sc.config
       /\ availableIndices \in sc.indices
       /\ events = sc.quota
       /\ streamingMode \in sc.modes
  /\ connections = <<>>
  /\ reconnectGraceTimer = "null"
  /\ lostTimers = 0
  /\ messageQueues = {}
  /\ queue = [r \in Requests |-> NoQueue]
  /\ currentAuthIndex \in SeqToSet(availableIndices)
  /\ failureCount = 0
  /\ usageCount = 0
  /\ isAuthSwitching = FALSE
  /\ isSystemBusy = FALSE
  /\ needsSwitchingAfterRequest = FALSE
  /\ switchOp = NoSwitch
  /\ req = [r \in Requests |-> NewReq]
  /\ arrived = 0
  /\ peerOps = {}
  /\ flagOwner = {}
  /\ fRun = 0
  /\ fRunSwitches = 0
  /\ multiPeer = FALSE
  /\ dequeueCalls = <<>>
  /\ enqueued = <<>>
  /\ peer = NewPeer
  /\ AuthSourceBuilt(availableIndices)

\* the continuations of processRequest for r, run by the microtask queue
Continues(r) ==
  \/ ResumeAdmit(r)
  \/ ResumePseudoFirst(r)
  \/ ResumeSwitching(r)
  \/ ResumeAfterFailure(r)
  \/ ResumePseudoData(r)
  \/ ResumePseudoEnd(r)
  \/ ResumeRealHeader(r)
  \/ ResumeRealStream(r)
  \/ ProcessRequestFinally(r)
  \/ Retire(r)

\* the timers r waits for: the retry delay, the 300 s ceiling, the timeout of
\* its pending dequeue
TimerExpires(r) ==
  \/ RetryDelayEnds(r)
  \/ CeilingTimeout(r)
  \/ \E tok \in 1..8 : tok = req[r].tok /\ ResolverTimeout(r, tok)

LiveFairness ==
  /\ \A r \in Requests : WF_vars(Continues(r))
  /\ \A r \in Requests : WF_vars(TimerExpires(r))
  /\ \A r \in Requests : WF_vars(\E ok \in BOOLEAN : RecoveryEnds(r, ok))
  /\ WF_vars(\E ok \in BOOLEAN : SwitchActivationEnds(ok))

LiveSpec == LiveInit /\ [][Next]_vars /\ LiveFairness

\* ------------------------------------------- a MessageQueue on its own
\* One MessageQueue object (that of request id 1) whose methods are called in
\* any order: enqueue with the fragments the registry routes to it, dequeue,
\* the timer of a dequeue, close.  dequeueCalls[tok] holds the promise the call
\* with resolver tok returned and whether its timer is still scheduled.
QueueId == 1
TheQueue == queue[QueueId]

QueueInit ==
  /\ config = Defaults
  /\ availableIndices = SortedSeq(AuthIndices)
  /\ events = Quota
  /\ streamingMode = "fake"
  /\ connections = <<>>
  /\ reconnectGraceTimer = "null"
  /\ lostTimers = 0
  /\ messageQueues = {QueueId}
  /\ queue = [r \in Requests |-> IF r = QueueId THEN NewQueue ELSE NoQueue]
  /\ currentAuthIndex = 1
  /\ failureCount = 0
  /\ usageCount = 0
  /\ isAuthSwitching = FALSE
  /\ isSystemBusy = FALSE
  /\ needsSwitchingAfterRequest = FALSE
  /\ switchOp = NoSwitch
  /\ req = [r \in Requests |-> NewReq]
  /\ arrived = 0
  /\ peerOps = {}
  /\ flagOwner = {}
  /\ fRun = 0
  /\ fRunSwitches = 0
  /\ multiPeer = FALSE
  /\ dequeueCalls = <<>>
  /\ enqueued = <<>>
  /\ peer = NewPeer
  /\ AuthSourceBuilt(availableIndices)

QueueFrame ==
  UNCHANGED << config, availableIndices, streamingMode, registryVars, messageQueues,
               currentAuthIndex, countVars, lockVars, needsSwitchingAfterRequest, req,
               arrived, peerOps, histVars, events, peer, authVars >>

\* the wire fragments of one response, each chunk with its own data
QueueFragmentKinds == {"response_headers", "chunk", "stream_close"}
QueueFragment(kind) ==
  IF kind = "response_headers" THEN HeadersMsg(QueueId)
  ELSE IF kind = "chunk" THEN ChunkMsg(QueueId, Len(enqueued) + 1)
  ELSE StreamCloseMsg(QueueId)

\* _routeMessage(m, queue) for a fragment of that kind: enqueue(Routed(m))
QueueEnqueue(kind) ==
  LET e == Routed(QueueFragment(kind))
      tok == EnqueueResolves(TheQueue)
  IN /\ Len(enqueued) < MaxEnqueues
     /\ e \notin SeqToSet(enqueued)
     /\ enqueued' = Append(enqueued, e)
     /\ queue' = [queue EXCEPT ![QueueId] = Enqueue(@, e)]
     /\ dequeueCalls' = IF tok # 0
                        THEN [dequeueCalls EXCEPT ![tok].val = MsgVal(e)]
                        ELSE dequeueCalls
     /\ QueueFrame

\* dequeue(): the call registers resolver Len(dequeueCalls) + 1 if it has to wait
QueueDequeue ==
  LET tok == Len(dequeueCalls) + 1
      v == DequeueNow(TheQueue)
  IN /\ tok <= MaxCalls
     /\ queue' = [queue EXCEPT ![QueueId] = Dequeue(@, tok)]
     /\ dequeueCalls' = Append(dequeueCalls, [val |-> v, timer |-> v = NoVal])
     /\ UNCHANGED enqueued
     /\ QueueFrame

\* the setTimeout callback of the dequeue() call with resolver tok
QueueTimeout(tok) ==
  /\ tok \in 1..Len(dequeueCalls)
  /\ dequeueCalls[tok].timer
  /\ queue' = [queue EXCEPT ![QueueId] = TimeoutResolver(@, tok)]
  /\ dequeueCalls' = [dequeueCalls EXCEPT
                        ![tok].timer = FALSE,
                        ![tok].val = IF IndexOf(TheQueue.waitingResolvers, tok) # 0
                                     THEN Reject("Queue timeout") ELSE @]
  /\ UNCHANGED enqueued
  /\ QueueFrame

\* close(): every listed resolver is rejected and its timer cleared
QueueClose ==
  /\ queue' = [queue EXCEPT ![QueueId] = Close(@)]
  /\ dequeueCalls' = [tok \in 1..Len(dequeueCalls) |->
                        IF IndexOf(TheQueue.waitingResolvers, tok) # 0
                        THEN [val |-> Reject("Queue closed"), timer |-> FALSE]
                        ELSE dequeueCalls[tok]]
  /\ UNCHANGED enqueued
  /\ QueueFrame

QueueNext ==
  \/ \E kind \in QueueFragmentKinds : QueueEnqueue(kind)
  \/ QueueDequeue
  \/ \E tok \in 1..MaxCalls : QueueTimeout(tok)
  \/ QueueClose

QueueSpec == QueueInit /\ [][QueueNext]_vars

\* --------------------------------------------- an AuthSource on its own
\* new AuthSource() in any environment, after which the sources change under it
\* and getAuth is called with any index.
AuthInit ==
  /\ config = Defaults
  /\ availableIndices = <<>>
  /\ events = Quota
  /\ streamingMode = "fake"
  /\ connections = <<>>
  /\ reconnectGraceTimer = "null"
  /\ lostTimers = 0
  /\ messageQueues = {}
  /\ queue = [r \in Requests |-> NoQueue]
  /\ currentAuthIndex = 0
  /\ failureCount = 0
  /\ usageCount = 0
  /\ isAuthSwitching = FALSE
  /\ isSystemBusy = FALSE
  /\ needsSwitchingAfterRequest = FALSE
  /\ switchOp = NoSwitch
  /\ req = [r \in Requests |-> NewReq]
  /\ arrived = 0
  /\ peerOps = {}
  /\ flagOwner = {}
  /\ fRun = 0
  /\ fRunSwitches = 0
  /\ multiPeer = FALSE
  /\ dequeueCalls = <<>>
  /\ enqueued = <<>>
  /\ peer = NewPeer
  /\ authEnv \in AuthEnvs
  /\ initialIndices = <<>>
  /\ authBuilt = "new"
  /\ getAuthReturned = NoAuthCall

AuthFrame ==
  UNCHANGED << config, streamingMode, registryVars, queueVars, currentAuthIndex,
               countVars, lockVars, needsSwitchingAfterRequest, req, arrived, peerOps,
               histVars, events, dequeueCalls, enqueued, peer >>

\* new AuthSource(logger): discovery, pre-validation, and the throw when no
\* source is left
AuthConstruct ==
  /\ authBuilt = "new"
  /\ initialIndices' = DiscoverAvailableIndices(authEnv)
  /\ availableIndices' = PreValidateAndFilter(authEnv, DiscoverAvailableIndices(authEnv))
  /\ authBuilt' = IF Len(availableIndices') = 0 THEN "failed" ELSE "ready"
  /\ UNCHANGED << authEnv, getAuthReturned >>
  /\ AuthFrame

\* A file of the auth directory is written, replaced or deleted while the
\* server runs (process.env does not change under a running process).
AuthSourceChanges(index, entry) ==
  /\ authBuilt = "ready"
  /\ AuthMode(authEnv) = "file"
  /\ entry # authEnv.entries[index]
  /\ authEnv' = [authEnv EXCEPT !.entries[index] = entry]
  /\ UNCHANGED << availableIndices, initialIndices, authBuilt, getAuthReturned >>
  /\ AuthFrame

\* authSource.getAuth(index), as launchOrSwitchContext calls it
AuthGet(index) ==
  /\ authBuilt = "ready"
  /\ getAuthReturned' = [index |-> index,
                         value |-> GetAuth(authEnv, availableIndices, index)]
  /\ UNCHANGED << authEnv, availableIndices, initialIndices, authBuilt >>
  /\ AuthFrame

AuthNext ==
  \/ AuthConstruct
  \/ \E i \in AuthIndices, e \in AuthEntries : AuthSourceChanges(i, e)
  \/ \E i \in TargetIndices : AuthGet(i)

AuthSpec == AuthInit /\ [][AuthNext]_vars

\* ------------------------------------ the registry's message handler on its own
\* Queues are created and removed, their owners call dequeue, and the WebSocket
\* delivers any data: text that is not JSON, and messages with or without a
\* request_id, of the four event types and of another one.
RouteIds == 0..2
WireMessages ==
  UNION { { HeadersMsg(id), ChunkMsg(id, 1), ErrorMsg(id, PeerDefaultStatus, ""),
            StreamCloseMsg(id),
            [NoMsg EXCEPT !.event_type = "cancel_request", !.request_id = id] }
          : id \in RouteIds }
Wires == { [parses |-> TRUE, m |-> m] : m \in WireMessages }
         \cup { [parses |-> FALSE, m |-> NoMsg] }

RouteInit ==
  /\ config = Defaults
  /\ availableIndices = SortedSeq(AuthIndices)
  /\ events = Quota
  /\ streamingMode = "fake"
  /\ connections = << "ws1" >>
  /\ reconnectGraceTimer = "null"
  /\ lostTimers = 0
  /\ messageQueues = {}
  /\ queue = [r \in Requests |-> NoQueue]
  /\ currentAuthIndex = 1
  /\ failureCount = 0
  /\ usageCount = 0
  /\ isAuthSwitching = FALSE
  /\ isSystemBusy = FALSE
  /\ needsSwitchingAfterRequest = FALSE
  /\ switchOp = NoSwitch
  /\ req = [r \in Requests |-> NewReq]
  /\ arrived = 0
  /\ peerOps = {}
  /\ flagOwner = {}
  /\ fRun = 0
  /\ fRunSwitches = 0
  /\ multiPeer = FALSE
  /\ dequeueCalls = <<>>
  /\ enqueued = <<>>
  /\ peer = NewPeer
  /\ AuthSourceBuilt(availableIndices)

RouteFrame ==
  UNCHANGED << config, availableIndices, streamingMode, registryVars, currentAuthIndex,
               countVars, lockVars, needsSwitchingAfterRequest, arrived, peerOps,
               histVars, events, dequeueCalls, peer, authVars >>

\* createMessageQueue(requestId)
RouteCreateQueue(r) ==
  /\ r \in RouteIds \ {0}
  /\ r \notin messageQueues
  /\ req[r].ndq = 0
  /\ messageQueues' = messageQueues \cup {r}
  /\ queue' = [queue EXCEPT ![r] = NewQueue]
  /\ UNCHANGED << req, enqueued >>
  /\ RouteFrame

\* removeMessageQueue(requestId)
RouteRemoveQueue(r) ==
  /\ r \in messageQueues
  /\ req[r].tok = 0
  /\ queue' = [queue EXCEPT ![r] = Close(@)]
  /\ messageQueues' = RemoveMessageQueue(messageQueues, r)
  /\ UNCHANGED << req, enqueued >>
  /\ RouteFrame

\* the owner of queue r calls dequeue(): it gets the buffered head or waits
RouteDequeue(r) ==
  LET tok == req[r].ndq + 1
      v == DequeueNow(queue[r])
  IN /\ r \in messageQueues
     /\ req[r].tok = 0
     /\ tok <= MaxCalls
     /\ queue' = [queue EXCEPT ![r] = Dequeue(@, tok)]
     /\ req' = [req EXCEPT ![r].ndq = tok,
                           ![r].tok = IF v = NoVal THEN tok ELSE 0,
                           ![r].got = NoVal,
                           ![r].lastMessage = IF v = NoVal THEN @ ELSE v.msg]
     /\ UNCHANGED << messageQueues, enqueued >>
     /\ RouteFrame

\* the "message" event of the peer's WebSocket with data w: JSON.parse inside
\* the try of _handleIncomingMessage, whose catch only logs
RouteReceives(w) ==
  /\ Len(enqueued) < MaxEnqueues
  /\ enqueued' = Append(enqueued, w)
  /\ IF w.parses THEN HandleIncomingMessage(w.m) ELSE UNCHANGED << queue, req >>
  /\ UNCHANGED messageQueues
  /\ RouteFrame

RouteNext ==
  \/ \E r \in Requests : RouteCreateQueue(r)
  \/ \E r \in Requests : RouteRemoveQueue(r)
  \/ \E r \in Requests : RouteDequeue(r)
  \/ \E w \in Wires : RouteReceives(w)

RouteSpec == RouteInit /\ [][RouteNext]_vars

\* ------------------------------------------------- the peer on its own
\* The browser peer fed with the messages of a server: proxy requests, which the
\* server repeats under the same request_id when it retries, and cancel_request
\* messages; its socket closes and is opened again.
PeerInit == RouteInit

PeerFrame ==
  UNCHANGED << config, availableIndices, streamingMode, registryVars, queueVars,
               currentAuthIndex, countVars, lockVars, needsSwitchingAfterRequest, req,
               arrived, histVars, events, dequeueCalls, enqueued, authVars >>

KeyOf(op) == << op.id, op.att >>
Started(k) == \E op \in peerOps : KeyOf(op) = k
Running(op) == op.phase \notin {"end", "cut"}

\* execute(requestSpec, operationId): activeOperations.set(operationId, controller)
\* replaces the controller an earlier operation registered under the id
Execute(op) ==
  /\ peerOps' = peerOps \cup {op}
  /\ peer' = [peer EXCEPT !.activeOperations[op.id] = KeyOf(op)]

\* The "message" event of the socket with a proxy request of the server.  The
\* server numbers its attempts from 1 and makes more than one only in
\* pseudo-stream mode, also while the operation of an earlier attempt is running
\* (its wait for the first fragment has a ceiling).
PeerGetsRequest(id, att, mode) ==
  /\ peer.isConnected
  /\ Cardinality(peerOps) < MaxPeerOps
  /\ ~Started(<< id, att >>)
  /\ ~Started(<< id, 0 >>)
  /\ att > 1 => mode = "fake" /\ Started(<< id, att - 1 >>)
  /\ \A op \in peerOps : op.id = id => op.mode = mode
  /\ Execute(NewOp(id, [NewReq EXCEPT !.attempt = att, !.streaming_mode = mode], "ws1"))
  /\ PeerFrame

\* the "message" event of the socket with a cancel_request of the server
PeerGetsCancel(id) ==
  /\ peer.isConnected
  /\ Cardinality(peerOps) < MaxPeerOps
  /\ \E a \in 1..MaxPeerAttempts : Started(<< id, a >>)
  /\ ~Started(<< id, 0 >>)
  /\ Execute(CancelOp(id, "ws1"))
  /\ PeerFrame

\* connectionManager.transmit(data): sent when connected, dropped otherwise
Transmit(k, m) ==
  IF peer.isConnected
  THEN [peer EXCEPT !.transmitted[k] = Append(@, m)]
  ELSE peer

\* an operation reaches its next _transmitHeaders, _transmitChunk,
\* _transmitStreamEnd or _sendErrorResponse
PeerEmits(op) ==
  /\ op \in peerOps
  /\ Running(op)
  /\ \E s \in PeerSteps(op) :
       /\ peer' = Transmit(KeyOf(op), s.m)
       /\ peerOps' = (peerOps \ {op}) \cup {[op EXCEPT !.phase = s.phase, !.sent = s.sent]}
  /\ PeerFrame

\* The "close" event of the socket: isConnected = false, then the "disconnected"
\* handler runs cancelAllOperations(), which aborts the controllers the map holds
\* and clears it.  An aborted operation ends with an error it cannot transmit
\* (the socket is opened again 5 s later at the earliest); an operation whose
\* controller was replaced in the map is not aborted.
PeerDisconnected ==
  /\ peer.isConnected
  /\ peer' = [peer EXCEPT !.isConnected = FALSE,
                          !.activeOperations = [i \in PeerIds |-> NoKey]]
  /\ peerOps' = { IF Running(op) /\ peer.activeOperations[op.id] = KeyOf(op)
                  THEN [op EXCEPT !.phase = "cut"] ELSE op : op \in peerOps }
  /\ PeerFrame

\* _scheduleReconnect: establish() succeeds
PeerReconnected ==
  /\ ~peer.isConnected
  /\ peer' = [peer EXCEPT !.isConnected = TRUE]
  /\ UNCHANGED peerOps
  /\ PeerFrame

PeerNext ==
  \/ \E id \in PeerIds, att \in 1..MaxPeerAttempts, mode \in EitherMode :
       PeerGetsRequest(id, att, mode)
  \/ \E id \in PeerIds : PeerGetsCancel(id)
  \/ \E op \in peerOps : PeerEmits(op)
  \/ PeerDisconnected
  \/ PeerReconnected

PeerSpec == PeerInit /\ [][PeerNext]_vars

\* ================================================================ claims
ActivationInProgress ==
  switchOp.phase # "none" \/ \E r \in Requests : req[r].pc = "recovering"

\* C1: a fragment the peer stamped with request id r is buffered only in r's
\* queue and is only ever delivered to r: every message a request holds, has
\* buffered or has dequeued was sent for that request.
QueueIsolation ==
  \A r \in Requests :
    /\ \A i \in 1..Len(queue[r].messages) : queue[r].messages[i].origin = r
    /\ req[r].got.kind = "msg" => req[r].got.msg.origin = r
    /\ req[r].lastMessage.origin \in {0, r}
    /\ req[r].dataMessage.origin \in {0, r}

\* Two requests are in flight, one is handed a fragment while the other has
\* already dequeued its own.
ConcurrentDelivery ==
  \E r1, r2 \in Requests :
    /\ r1 # r2
    /\ {r1, r2} \subseteq messageQueues
    /\ req[r1].got.kind = "msg"
    /\ req[r2].lastMessage.origin = r2

\* a grace timeout, held or overwritten, runs its callback
TeardownStep ==
  \/ reconnectGraceTimer = "pending" /\ reconnectGraceTimer' = "fired"
  \/ lostTimers' < lostTimers

OneActivationAtATime ==
  Cardinality({ r \in Requests : req[r].pc = "recovering" })
    + (IF switchOp.phase # "none" THEN 1 ELSE 0) <= 1

\* C4: a request that arrives while a switch or a recovery is in progress does
\* not pass the admission checks.
NoAdmissionWhileActivating ==
  [][ \A r \in Requests :
        (req[r].pc = "idle" /\ req'[r].pc = "admit") => ~ActivationInProgress ]_vars

\* r leaves processRequest with the 503 error response and no other effect
Rejected(r) ==
  /\ req'[r].pc = "done"
  /\ req'[r].res.status = 503
  /\ req'[r].res.writableEnded
  /\ req'[r].res.body = << <<"error_json", 503>> >>
  /\ UNCHANGED << queueVars, peerOps, countVars, needsSwitchingAfterRequest,
                  isAuthSwitching, switchOp, currentAuthIndex >>

\* C5: a request that arrives while isSystemBusy is set, or whose recovery
\* fails, ends with a 503 response and changes nothing else.
BusyRejection ==
  [][ \A r \in Requests :
        /\ (req[r].pc = "idle" /\ req'[r].pc # "idle" /\ isSystemBusy)
             => Rejected(r) /\ isSystemBusy'
        /\ (req[r].pc = "recovering" /\ req'[r].pc # "recovering"
            /\ req'[r].pc # "admit") => Rejected(r)
    ]_vars

\* A request was turned away with 503 while a switch was running.
RejectedWhileSwitching ==
  \E r \in Requests :
    /\ req[r].pc = "done"
    /\ req[r].res.status = 503
    /\ isSystemBusy /\ isAuthSwitching

\* C6: once no switch and no recovery is in progress, isSystemBusy and
\* isAuthSwitching are both false, whichever way the activations ended.
LockReleased ==
  ~ActivationInProgress => ~isSystemBusy /\ ~isAuthSwitching

\* A request learns that target and fallback both failed, and the lock is free.
FatalSwitchUnlocked ==
  /\ ~ActivationInProgress
  /\ ~isSystemBusy /\ ~isAuthSwitching
  /\ \E r \in Requests : req[r].pc = "switching" /\ req[r].got = Reject("fatal")

\* the first fragment of r was not an error: the success branch runs
FirstFragmentAccepted(r) ==
  /\ req[r].pc \in {"pseudo_first", "real_header"}
  /\ req'[r].pc \in {"pseudo_data", "real_stream"}

\* C7: with failureThreshold = 3, during a run of consecutive final failures of
\* generative requests (statuses outside the immediate-switch set) that starts at
\* failure counter 0, _switchToNextAuth is not called on the first two failures
\* and is called exactly once on the third; a generative request that succeeds
\* leaves the failure counter at 0.
ThresholdSwitchOnce ==
  /\ [](config.failureThreshold = DefaultFailureThreshold =>
          /\ fRun \in 1..(DefaultFailureThreshold - 1) => fRunSwitches = 0
          /\ fRun = DefaultFailureThreshold => fRunSwitches = 1
          /\ fRun > 0 => failureCount = fRun)
  /\ [][ \A r \in Requests :
           FirstFragmentAccepted(r) /\ req[r].is_generative => failureCount' = 0 ]_vars

\* The third failure in a row has started the rotation, two credentials valid.
ThirdFailureSwitches ==
  /\ config.failureThreshold = DefaultFailureThreshold
  /\ Len(availableIndices) >= 2
  /\ fRun = DefaultFailureThreshold
  /\ fRunSwitches = 1
  /\ \E r \in Requests : switchOp.caller = ByRequest(r) /\ switchOp.phase = "primary"

\* the failure handler runs for r: the last attempt ended with an error
FinalFailure(r) ==
  /\ req[r].pc \in {"pseudo_first", "real_header"}
  /\ req'[r].pc \in {"switching", "after_failure"}

\* C8: a final upstream error whose status is in the immediate-switch set makes
\* the failure handler call _switchToNextAuth, whatever the failure counter and
\* also with failureThreshold = 0.
ImmediateSwitch ==
  [][ \A r \in Requests :
        FinalFailure(r) /\ req'[r].lastMessage.status \in ImmediateSwitchStatusCodes
          => /\ req'[r].pc = "switching"
             /\ SwitchToNextOutcome = "start"
                  => switchOp' = [kind |-> "next", phase |-> "primary",
                                  previousAuthIndex |-> currentAuthIndex,
                                  target |-> GetNextAuthIndex, caller |-> ByRequest(r)]
    ]_vars

\* A single 429 started the rotation although threshold switching is disabled.
ImmediateSwitchWithoutThreshold ==
  /\ config.failureThreshold = 0
  /\ failureCount = 0
  /\ \E r \in Requests :
       /\ req[r].pc = "switching"
       /\ req[r].lastMessage.status \in ImmediateSwitchStatusCodes
       /\ switchOp.caller = ByRequest(r)

\* C9: with exactly one valid credential a call of _switchToNextAuth, from the
\* failure handler or from the deferred rotation, fails with the only-one-account
\* error and changes neither the current index, the counters (beyond the failure
\* handler's own increment before the call), busy, switching, nor starts an
\* activation.
OnlyOneAccountNoMutation ==
  [][ Len(availableIndices) = 1 =>
        \A r \in Requests :
          /\ (FinalFailure(r) /\ req'[r].pc = "switching")
               => /\ req'[r].got = Reject("Only one account is available")
                  /\ failureCount' = IF config.failureThreshold > 0
                                     THEN failureCount + 1 ELSE failureCount
                  /\ UNCHANGED << currentAuthIndex, usageCount, lockVars >>
          /\ (req[r].pc = "finally" /\ req'[r].pc = "done" /\ needsSwitchingAfterRequest)
               => UNCHANGED << currentAuthIndex, countVars, lockVars >>
    ]_vars

\* The failure handler's call was refused with the only-one-account error.
OnlyOneAccountRefused ==
  /\ Len(availableIndices) = 1
  /\ ~ActivationInProgress
  /\ \E r \in Requests :
       /\ req[r].pc = "switching"
       /\ req[r].got = Reject("Only one account is available")

\* the finally of r starts the deferred rotation
DeferredStart(r) ==
  /\ req[r].pc = "finally"
  /\ req'[r].pc = "done"
  /\ needsSwitchingAfterRequest
  /\ switchOp.phase = "none"
  /\ switchOp'.phase = "primary"

\* C10: the rotation a request flagged by reaching switchOnUses starts only when
\* every request that set the flag has completed.
DeferredAfterFlaggingRequest ==
  [][ \A r \in Requests :
        DeferredStart(r) =>
          flagOwner \subseteq ({r} \cup { q \in Requests : req[q].pc \in {"done", "retired"} })
    ]_vars

\* a switch takes the lock and starts the activation of its target
SwitchStarts == switchOp.phase = "none" /\ switchOp'.phase = "primary"

\* C11: no switch (by failure, by usage count, or manual) starts its activation
\* while the queue of a request other than the one that called for it is still
\* registered.
NoSwitchWhileInFlight ==
  [][ SwitchStarts =>
        \A q \in messageQueues' : switchOp'.caller = ByRequest(q) ]_vars

\* request r is dispatched to the peer (_forwardRequest)
Dispatched(r) == \E op \in peerOps' \ peerOps : op.id = r /\ op.phase = "got"

\* C12: in pseudo-stream mode, once an attempt of r has ended with an error
\* fragment whose message reports a user abort, r is not dispatched again.
AbortNotRetried ==
  [][ \A r \in Requests :
        req[r].streaming_mode = "fake" /\ Aborted(req[r].lastMessage) => ~Dispatched(r) ]_vars

\* the client of r closed the connection before the response had ended
ClientCancelled(r) == req[r].res.destroyed

\* C13: the final failure of a request whose client went away before completion
\* neither increments the failure counter nor starts a rotation, in both modes.
CancelledNotCounted ==
  [][ \A r \in Requests :
        ClientCancelled(r) /\ FinalFailure(r)
          => failureCount' = failureCount /\ UNCHANGED switchOp ]_vars

\* the fragments r consumed are the peer's response_headers, one chunk and the
\* end-of-stream sentinel, and r writes its response
PseudoExchangeEnds(r) ==
  /\ req[r].pc = "pseudo_end"
  /\ req'[r].pc = "finally"
  /\ req[r].is_generative
  /\ ~ClientCancelled(r)
  /\ req[r].lastMessage.event_type = "response_headers"
  /\ req[r].dataMessage.event_type = "chunk"
  /\ req[r].got.kind = "msg"
  /\ req[r].got.msg.type = "STREAM_END"

\* C14: a generative request in pseudo-stream mode whose peer sends headers, one
\* chunk and stream_close answers with exactly `data: <chunk>` and `data: [DONE]`,
\* status 200, no error payload; accepting the headers puts the failure counter
\* at 0 and writing the response leaves it unchanged.
PseudoStreamSuccess ==
  [][ \A r \in Requests :
        /\ PseudoExchangeEnds(r)
             => /\ req'[r].res.body = << <<"data", req[r].dataMessage.data>>, <<"done", 0>> >>
                /\ req'[r].res.status = 200
                /\ req'[r].res.writableEnded
                /\ failureCount' = failureCount
        /\ (req[r].pc = "pseudo_first" /\ req'[r].pc = "pseudo_data" /\ req[r].is_generative)
             => failureCount' = 0
    ]_vars

\* A generative pseudo-stream request has answered with the chunk and the marker
\* while the failure counter is 0.
PseudoStreamAnswered ==
  \E r \in Requests :
    /\ req[r].pc = "done"
    /\ req[r].is_generative
    /\ req[r].streaming_mode = "fake"
    /\ req[r].dataMessage = ChunkMsg(r, 1)
    /\ req[r].res.body = << <<"data", 1>>, <<"done", 0>> >>
    /\ failureCount = 0

\* ---- claims about a MessageQueue on its own (QueueSpec)
Calls == 1..Len(dequeueCalls)
Waiting(tok) == dequeueCalls[tok].val = NoVal
TimedOut(tok) == dequeueCalls[tok].val = Reject("Queue timeout")
Listed(q, tok) == IndexOf(q.waitingResolvers, tok) # 0

\* the timer of call tok runs its callback
TimerFires(tok) ==
  /\ dequeueCalls[tok].timer
  /\ ~dequeueCalls'[tok].timer
  /\ TheQueue'.closed = TheQueue.closed

\* C15: a dequeue whose timer expires before any message reaches it fails with
\* "Queue timeout" and its resolver leaves the waiter list for good; the call
\* stays failed, and a message enqueued afterwards is buffered or given to a call
\* that was still waiting.
DequeueTimeout ==
  /\ [](\A tok \in Calls : TimedOut(tok) => ~Listed(TheQueue, tok))
  /\ [][ /\ \A tok \in Calls :
              /\ TimerFires(tok) /\ Waiting(tok)
                   => TimedOut(tok)' /\ ~Listed(TheQueue', tok)
              /\ TimedOut(tok) => dequeueCalls'[tok] = dequeueCalls[tok]
         /\ (enqueued' # enqueued /\ ~TheQueue.closed)
              => LET e == enqueued'[Len(enqueued')]
                 IN \/ TheQueue'.messages = Append(TheQueue.messages, e)
                    \/ \E tok \in Calls : Waiting(tok) /\ dequeueCalls'[tok].val = MsgVal(e)
       ]_vars

\* A call timed out, and the message enqueued after that sits in the buffer.
TimedOutThenBuffered ==
  \E tok \in Calls :
    /\ TimedOut(tok)
    /\ ~dequeueCalls[tok].timer
    /\ ~TheQueue.closed
    /\ Len(TheQueue.messages) > 0

\* C16: close() rejects every waiting dequeue with "Queue closed" and discards
\* the buffer; on a closed queue enqueue buffers and delivers nothing, dequeue
\* fails with "Queue is closed", and close changes nothing.
QueueClosure ==
  /\ [](TheQueue.closed =>
          /\ TheQueue.messages = <<>>
          /\ TheQueue.waitingResolvers = <<>>
          /\ \A tok \in Calls : ~Waiting(tok)
          /\ \A kind \in QueueFragmentKinds :
               Enqueue(TheQueue, Routed(QueueFragment(kind))) = TheQueue
          /\ EnqueueResolves(TheQueue) = 0
          /\ DequeueNow(TheQueue) = Reject("Queue is closed")
          /\ Close(TheQueue) = TheQueue)
  /\ [][ /\ (~TheQueue.closed /\ TheQueue'.closed)
              => \A tok \in Calls :
                   dequeueCalls'[tok].val = IF Waiting(tok) THEN Reject("Queue closed")
                                            ELSE dequeueCalls[tok].val
         /\ TheQueue.closed
              => /\ TheQueue' = TheQueue
                 /\ \A tok \in Calls : dequeueCalls'[tok].val = dequeueCalls[tok].val
                 /\ Len(dequeueCalls') > Len(dequeueCalls)
                      => dequeueCalls'[Len(dequeueCalls')].val = Reject("Queue is closed")
       ]_vars

\* The queue was closed under a waiting call, and a call made after that failed.
ClosedUnderWaiter ==
  /\ TheQueue.closed
  /\ Len(enqueued) > 0
  /\ \E t1, t2 \in Calls :
       /\ t1 < t2
       /\ dequeueCalls[t1].val = Reject("Queue closed")
       /\ dequeueCalls[t2].val = Reject("Queue is closed")

\* call tok was resolved with a message
Delivered(tok) == dequeueCalls[tok].val.kind = "msg"

\* C17: whatever the order of enqueue, dequeue, timers and close, no message is
\* handed to two dequeue calls, a call that succeeded holds one enqueued message
\* and keeps it, a message handed to a call is not in the buffer, and the buffer
\* holds no message twice.
ExactlyOnceDelivery ==
  /\ [](/\ \A t1, t2 \in Calls :
             Delivered(t1) /\ Delivered(t2) /\ t1 # t2
               => dequeueCalls[t1].val.msg # dequeueCalls[t2].val.msg
        /\ \A tok \in Calls :
             Delivered(tok)
               => /\ dequeueCalls[tok].val.msg \in SeqToSet(enqueued)
                  /\ dequeueCalls[tok].val.msg \notin SeqToSet(TheQueue.messages)
        /\ \A i, j \in 1..Len(TheQueue.messages) :
             i # j => TheQueue.messages[i] # TheQueue.messages[j]
        /\ \A tok \in Calls : Listed(TheQueue, tok) <=> Waiting(tok))
  /\ [][ \A tok \in Calls :
           Delivered(tok) => dequeueCalls'[tok].val = dequeueCalls[tok].val ]_vars

\* Two calls hold different messages, a third message is buffered, and another
\* call has timed out.
TwoDeliveredOneBuffered ==
  /\ Len(TheQueue.messages) > 0
  /\ \E t1, t2 \in Calls : t1 # t2 /\ Delivered(t1) /\ Delivered(t2)
  /\ \E tok \in Calls : TimedOut(tok)

\* the messages the dequeue calls returned, in the order of the calls
Returned ==
  LET ok == SelectSeq(dequeueCalls, LAMBDA c : c.val.kind = "msg")
  IN [i \in 1..Len(ok) |-> ok[i].val.msg]

IsPrefix(a, b) == Len(a) <= Len(b) /\ \A i \in 1..Len(a) : a[i] = b[i]

\* C18: the messages successive dequeue calls on one queue return are a prefix
\* of the fragments routed into the queue, in the same order, whether a message
\* was buffered or handed to a waiting call.
PerRequestFifo == IsPrefix(Returned, enqueued)

\* Two messages were returned in order, one to a call that waited for it and one
\* to a call that found it buffered.
FifoBufferedAndDirect ==
  /\ Len(Returned) >= 2
  /\ \E tok \in Calls : Delivered(tok) /\ dequeueCalls[tok].timer
  /\ \E tok \in Calls : Delivered(tok) /\ ~dequeueCalls[tok].timer

\* ---- claims about the server (Spec)
\* positions of processRequest between createMessageQueue and the end of its finally
Admitted ==
  { r \in Requests :
      req[r].pc \in {"pseudo_first", "retry_delay", "switching", "after_failure",
                     "pseudo_data", "pseudo_end", "real_header", "real_stream", "finally"} }

\* C19: only requests between admission and the end of their finally have a
\* queue in the map, so the map is empty when no admitted request is in
\* progress; a queue outside the map is closed and empty; and the finally of
\* every request leaves its queue closed and out of the map.
QueueCleanup ==
  /\ [](/\ messageQueues \subseteq Admitted
        /\ Admitted = {} => messageQueues = {}
        /\ \A r \in Requests : r \notin messageQueues => queue[r] = NoQueue)
  /\ [][ \A r \in Requests :
           (req[r].pc = "finally" /\ req'[r].pc = "done")
             => r \notin messageQueues' /\ queue'[r] = NoQueue ]_vars

\* A request the peer's loss ended has left processRequest with an error
\* response, and the map is empty.
CleanedAfterPeerLoss ==
  /\ messageQueues = {}
  /\ reconnectGraceTimer = "fired"
  /\ \E r \in Requests :
       /\ req[r].pc = "done"
       /\ req[r].authIndex = 0
       /\ req[r].attempt = 1
       /\ req[r].res.body = << <<"error_json", 500>> >>

\* an error payload is part of what was written to res
HasErrorPayload(res) ==
  \E i \in 1..Len(res.body) : res.body[i][1] \in {"error_json", "error_chunk", "final_failure"}

\* r is about to leave its response handler after a failure: a dequeue was
\* rejected (other than the 30 s silence that ends a real stream), the request
\* could not be dispatched, or the failure handler has run
EndsInFailure(r) ==
  \/ /\ req[r].pc \in {"pseudo_data", "pseudo_end", "real_header", "real_stream"}
     /\ req[r].got.kind = "reject"
     /\ ~(req[r].pc = "real_stream" /\ req[r].got.err = "Queue timeout")
  \/ req[r].pc \in {"admit", "retry_delay", "after_failure"}

\* C20: a request whose client is still there and that leaves its response
\* handler after a failure has an error payload in its response.
NoSilentFailure ==
  [][ \A r \in Requests :
        (EndsInFailure(r) /\ req'[r].pc = "finally" /\ ~ClientCancelled(r))
          => HasErrorPayload(req'[r].res) ]_vars

\* C21: the failure handler of a request that is not generative leaves the
\* failure counter alone, a non-generative request whose first fragment is
\* accepted does not reset it, and a generative one resets it to 0.
OnlyGenerativeCounted ==
  [][ \A r \in Requests :
        /\ (FinalFailure(r) /\ ~req[r].is_generative) => failureCount' = failureCount
        /\ (FirstFragmentAccepted(r) /\ ~req[r].is_generative) => failureCount' = failureCount
        /\ (FirstFragmentAccepted(r) /\ req[r].is_generative) => failureCount' = 0
    ]_vars

\* C22: in real mode the response takes the status of the response_headers
\* fragment and its headers except content-length; each chunk fragment's data is
\* appended to the body as it is dequeued, so the body is the peer's chunks in
\* order; the sentinel ends the response; and a dequeue that times out after the
\* headers ends it with no error payload, no failure counted and no switch.
RealStreamForwarding ==
  /\ [](\A r \in Requests :
          (req[r].streaming_mode = "real" /\ ~HasErrorPayload(req[r].res))
            => \A i \in 1..Len(req[r].res.body) : req[r].res.body[i] = <<"data", i>>)
  /\ [][ \A r \in Requests :
           /\ FirstFragmentAccepted(r) /\ req[r].pc = "real_header"
                => /\ req'[r].res.status = req[r].got.msg.status
                   /\ req'[r].res.headers = req[r].got.msg.headers \ {"content-length"}
                   /\ req'[r].res.body = <<>>
           /\ (req[r].pc = "real_stream" /\ req[r].got.kind = "msg"
               /\ req[r].got.msg.event_type = "chunk")
                => /\ req'[r].res = [req[r].res EXCEPT
                                       !.headersSent = TRUE,
                                       !.body = Append(@, <<"data", req[r].got.msg.data>>)]
                   /\ req'[r].pc = "real_stream"
           /\ (req[r].pc = "real_stream" /\ req[r].got.kind = "msg"
               /\ req[r].got.msg.type = "STREAM_END")
                => req'[r].res = ResEnd(req[r].res) /\ req'[r].pc = "finally"
           /\ (req[r].pc = "real_stream" /\ req[r].got = Reject("Queue timeout"))
                => /\ req'[r].res = ResEnd(req[r].res)
                   /\ req'[r].pc = "finally"
                   /\ failureCount' = failureCount
                   /\ UNCHANGED << lockVars, fRun, fRunSwitches >>
       ]_vars

\* A real-mode request has ended with the upstream's status, its headers without
\* content-length and both chunks in order.
RealStreamAnswered ==
  \E r \in Requests :
    /\ req[r].pc = "done"
    /\ req[r].streaming_mode = "real"
    /\ req[r].res.status = 206
    /\ req[r].res.headers = {"content-type"}
    /\ req[r].res.body = << <<"data", 1>>, <<"data", 2>> >>
    /\ req[r].res.writableEnded

\* the rotation request r's failure handler called for is still running
AwaitedRotation(r) == switchOp.phase # "none" /\ switchOp.caller = ByRequest(r)

\* C23: while the rotation called for by the failure of a real-mode request
\* runs, that request's error response has already been sent; in pseudo-stream
\* mode the response stays open until the rotation ends, its outcome is written
\* then, and the final failure payload follows it.
EscalationOrder ==
  /\ [](\A r \in Requests :
          AwaitedRotation(r)
            => IF req[r].streaming_mode = "real"
               THEN HasErrorPayload(req[r].res) /\ req[r].res.writableEnded
               ELSE ~req[r].res.writableEnded /\ ~HasErrorPayload(req[r].res))
  /\ [][ \A r \in Requests :
           (req[r].pc = "switching" /\ req'[r].pc = "after_failure"
            /\ req[r].streaming_mode = "fake" /\ ~req[r].res.writableEnded)
             => /\ Len(req'[r].res.body) = Len(req[r].res.body) + 1
                /\ req'[r].res.body[Len(req'[r].res.body)][1] \in {"switch_done", "switch_failed"}
                /\ ~req'[r].res.writableEnded
       ]_vars

\* C24: the registry never holds more than one peer connection.
SingletonPeer == Len(connections) <= 1

\* r waits for the first fragment of its current attempt, as the only waiter of
\* its queue
AwaitsFirstFragment(r) ==
  /\ req[r].pc \in {"pseudo_first", "real_header"}
  /\ req[r].got = NoVal
  /\ queue[r].waitingResolvers = << req[r].tok >>

\* C25: with never more than one peer at a time, a request that waits for its
\* first fragment while a peer is registered (also a peer that came back within
\* the grace period) has an operation in progress at the peer, which will send
\* it its fragments.
SurvivesReconnect ==
  \A r \in Requests :
    (AwaitsFirstFragment(r) /\ connections # <<>> /\ ~multiPeer)
      => \E op \in peerOps : op.id = r /\ op.phase # "cancel"

\* the client's connection closes in this step, before the response has ended
ClientClosesNow(r) == ~req[r].res.destroyed /\ req'[r].res.destroyed

\* C26: when the client's connection closes, the cancel_request sent to the peer
\* makes the peer start no operation of its own: the peer only aborts the
\* operation already in flight with that id.
CancelRoundTrip ==
  [][\A r \in Requests :
       ClientClosesNow(r) =>
         \A op \in peerOps' \ peerOps : ~(op.id = r /\ op.phase = "cancel")]_vars

\* what the request that called the switch in progress is handed in this step
SwitchCallerGets(v) ==
  switchOp.caller.kind = "request" => req'[switchOp.caller.id].got = v

\* the activation of the target of _switchToNextAuth ends in this step
NextTargetEnds ==
  switchOp.kind = "next" /\ switchOp.phase = "primary" /\ switchOp' # switchOp

\* the activation of the previous index, started as the fallback, ends in this step
NextFallbackEnds ==
  switchOp.kind = "next" /\ switchOp.phase = "fallback" /\ switchOp' # switchOp

\* C27: _switchToNextAuth: when the activation of the target fails, the previous
\* index is activated next and nothing else changes meanwhile; when that fallback
\* succeeds the current index is the previous index, both counters are 0 and the
\* caller gets the fallback result; when it fails too the error is thrown to
\* the caller and the failure leaves the current index and the counters as they
\* were.
SwitchToNextFallback ==
  [][/\ NextTargetEnds =>
          \/ /\ switchOp' = NoSwitch
             /\ currentAuthIndex' = switchOp.target
             /\ failureCount' = 0 /\ usageCount' = 0
             /\ SwitchCallerGets(SwitchResult("success"))
          \/ /\ switchOp' = [switchOp EXCEPT !.phase = "fallback"]
             /\ UNCHANGED << currentAuthIndex, failureCount, usageCount, req >>
     /\ NextFallbackEnds =>
          /\ switchOp' = NoSwitch
          /\ \/ /\ currentAuthIndex' = switchOp.previousAuthIndex
                /\ failureCount' = 0 /\ usageCount' = 0
                /\ SwitchCallerGets(SwitchResult("fallback"))
             \/ /\ UNCHANGED << currentAuthIndex, failureCount, usageCount >>
                /\ SwitchCallerGets(Reject("fatal"))]_vars

\* A request was handed the fallback result: the target failed, the previous
\* index was activated again, and the counters are 0.
FallbackReturned ==
  \E r \in Requests :
    /\ req[r].got = SwitchResult("fallback")
    /\ switchOp = NoSwitch
    /\ failureCount = 0 /\ usageCount = 0

\* what a call of _switchToSpecificAuth may not touch when it is refused
SwitchState == << lockVars, currentAuthIndex, countVars >>

\* the activation awaited by _switchToSpecificAuth ends in this step
SpecificTargetEnds == switchOp.kind = "specific" /\ switchOp' # switchOp

ReadableJson(i) == i \in AuthIndices /\ authEnv.entries[i].content = "json"

\* new AuthSource() ends in this step
AuthConstructed == authBuilt = "new" /\ authBuilt' # "new"

\* C29: the constructor leaves in availableIndices exactly the discovered
\* indices whose source can be read and parses as JSON, and fails exactly when
\* there is none; getAuth(index) returns null for an index outside
\* availableIndices and for one whose source, read at the call, is missing,
\* unreadable or not JSON.
CredentialPool ==
  [][/\ AuthConstructed =>
          /\ SeqToSet(availableIndices') \subseteq SeqToSet(initialIndices')
          /\ SeqToSet(availableIndices') =
               { i \in SeqToSet(initialIndices') : ReadableJson(i) }
          /\ authBuilt' = "failed" <=> availableIndices' = <<>>
     /\ (/\ getAuthReturned' # getAuthReturned
         /\ \/ getAuthReturned'.index \notin SeqToSet(availableIndices)
            \/ ~ReadableJson(getAuthReturned'.index))
          => getAuthReturned'.value = "null"]_vars

\* getAuth returned null for a validated index: its source stopped being
\* readable JSON after the constructor had accepted it.
ValidatedSourceWentBad ==
  /\ getAuthReturned.index \in SeqToSet(availableIndices)
  /\ getAuthReturned.value = "null"
  /\ Len(initialIndices) > Len(availableIndices)

\* r has ended: its client response is ended and its queue is removed
Terminated(r) ==
  /\ req[r].pc = "done"
  /\ req[r].res.writableEnded
  /\ r \notin messageQueues

\* C30: every request that was given a queue ends its response and removes its
\* queue, whatever the peer sends or fails to send; no timer is left that could
\* not expire.
EveryRequestTerminates ==
  /\ [](events.timeout > 0)
  /\ \A r \in Requests : (r \in messageQueues) ~> Terminated(r)

\* A request waits for the first fragment of a peer that has nothing to send it.
WaitsForSilentPeer ==
  \E r \in Requests :
    /\ AwaitsFirstFragment(r)
    /\ connections # <<>>
    /\ \A op \in peerOps : op.id # r

\* the least element of a non-empty set of indices
Least(S) == CHOOSE x \in S : \A y \in S : x <= y

\* the index after c in the set S taken in increasing order and as a ring, or
\* the least index of S when c is not in S
Successor(S, c) ==
  IF c \in S /\ \E x \in S : x > c THEN Least({ x \in S : x > c }) ELSE Least(S)

\* _switchToNextAuth takes the lock and starts the activation in this step
NextSwitchStarts == switchOp = NoSwitch /\ switchOp'.kind = "next"

\* C31: the target of _switchToNextAuth is the successor of the current index
\* in the sorted list of validated indices, wrapping from the last to the first,
\* or the first validated index when the current index is not in the list (for
\* every list over the indices 1..3 and every current index 0..3); when the
\* activation of the target succeeds the current index is the target and both
\* counters are 0.
SwitchToNextTarget ==
  /\ [](\A S \in (SUBSET TargetIndices) \ {{}}, c \in {0} \cup TargetIndices :
          NextAuthIndex(SortedSeq(S), c) = Successor(S, c))
  /\ [][/\ NextSwitchStarts =>
             /\ switchOp'.target = Successor(SeqToSet(availableIndices), currentAuthIndex)
             /\ switchOp'.previousAuthIndex = currentAuthIndex
        /\ (NextTargetEnds /\ switchOp' = NoSwitch) =>
             /\ currentAuthIndex' = switchOp.target
             /\ failureCount' = 0
             /\ usageCount' = 0]_vars

\* A rotation from the last validated index back to the first is in progress.
RotationWraps ==
  /\ switchOp.kind = "next"
  /\ switchOp.phase = "primary"
  /\ switchOp.previousAuthIndex = availableIndices[Len(availableIndices)]
  /\ switchOp.target = availableIndices[1]
  /\ switchOp.target # switchOp.previousAuthIndex

\* the data of the "message" event handled in this step
Received == enqueued'[Len(enqueued')]

\* what the registry is to enqueue for a message of one of the four event types
Expected(m) ==
  IF m.event_type = "stream_close" THEN [NoMsg EXCEPT !.type = "STREAM_END", !.origin = m.origin]
  ELSE m

\* the data is a message of a known event type for a request that has a queue
Routable(w) ==
  /\ w.parses
  /\ w.m.request_id \in messageQueues
  /\ w.m.event_type \in {"response_headers", "chunk", "error", "stream_close"}

\* queue q takes message e: its oldest waiter gets it, or it is buffered last
Takes(r, e) ==
  IF queue[r].waitingResolvers # <<>>
  THEN /\ queue'[r].waitingResolvers = Tail(queue[r].waitingResolvers)
       /\ queue'[r].messages = queue[r].messages
       /\ req'[r].got = MsgVal(e)
  ELSE /\ queue'[r].messages = Append(queue[r].messages, e)
       /\ queue'[r].waitingResolvers = <<>>

\* C32: a message of the peer is enqueued only on the queue registered under its
\* request_id: response_headers, chunk and error as they came, stream_close as
\* the STREAM_END sentinel; data that does not parse, has no request_id, names a
\* request without a queue or has another event type changes no queue and
\* wakes no waiter.
Routing ==
  [][Len(enqueued') > Len(enqueued) =>
       IF Routable(Received)
       THEN /\ Takes(Received.m.request_id, Expected(Received.m))
            /\ \A r \in Requests \ {Received.m.request_id} :
                 queue'[r] = queue[r] /\ req'[r] = req[r]
       ELSE UNCHANGED << queue, req, messageQueues >>]_vars

\* A stream_close was routed to a queue with nobody waiting: the sentinel is
\* buffered, after an unroutable message had been dropped.
SentinelBuffered ==
  \E r \in messageQueues, i \in 1..Len(enqueued) :
    /\ queue[r].messages # <<>>
    /\ queue[r].messages[Len(queue[r].messages)].type = "STREAM_END"
    /\ ~enqueued[i].parses

\* the text of the error the 300 s timer rejects the race with
CeilingText == "Response from browser timed out after 300 seconds"

\* request r is handed to the peer in this step (_forwardRequest)
DispatchedNow(r) ==
  \E op \in peerOps' \ peerOps : op.id = r /\ op.phase = "got"

\* the retry loop of r decides on another attempt in this step
RetryDecided(r) == req[r].pc = "pseudo_first" /\ req'[r].pc = "retry_delay"

\* the attempt of r that ends in this step ended with an error fragment
EndedWithErrorFragment(r) ==
  req[r].got.kind = "msg" /\ req[r].got.msg.event_type = "error"

\* the attempt of r that ends in this step ended with the 300 s timeout
EndedWithTimeout(r) == req[r].got = Reject(CeilingText)

\* the continuation of pseudo-stream request r records a failure in this step
FailureRecorded(r) ==
  /\ Runnable(r, "pseudo_first")
  /\ req'[r] # req[r]
  /\ failureCount' = failureCount + 1

\* one pseudo-stream request is dispatched at most maxRetries times
DispatchBound ==
  [](\A r \in Requests :
       req[r].streaming_mode = "fake" /\ req[r].pc \notin {"idle", "retired"}
         => req[r].attempt <= config.maxRetries)

\* a failure is recorded only when the last attempt has failed, and the request
\* then leaves the retry loop for good
FailureRecordedOnce ==
  [][\A r \in Requests :
       FailureRecorded(r) =>
         /\ req[r].attempt = config.maxRetries
         /\ EndedWithErrorFragment(r) \/ req[r].got.kind = "reject"
         /\ req'[r].pc \in {"switching", "after_failure"}]_vars

\* a request past its retry loop never comes back to it
RetryLoopLeft ==
  [][\A r \in Requests :
       req[r].pc \in {"switching", "after_failure", "pseudo_data", "pseudo_end", "finally",
                      "done"}
         => req'[r].pc \notin {"pseudo_first", "retry_delay"}]_vars

\* C33: a pseudo-stream request is dispatched at most maxRetries times; its
\* retry loop goes on to another attempt only after an attempt that ended with
\* an error fragment or with the 300 s timeout, and a dispatch after the first
\* one only follows such a decision; a failure is recorded at most once per
\* request, after the last attempt has failed.
RetryBound ==
  /\ DispatchBound
  /\ FailureRecordedOnce
  /\ RetryLoopLeft
  /\ [][\A r \in Requests :
          /\ RetryDecided(r) => EndedWithErrorFragment(r) \/ EndedWithTimeout(r)
          /\ (DispatchedNow(r) /\ req[r].streaming_mode = "fake" /\ req'[r].attempt > 1)
               => req[r].pc = "retry_delay"]_vars

\* the failure counter after one more recorded failure
Recorded == IF config.failureThreshold > 0 THEN failureCount + 1 ELSE failureCount

\* the continuation of r runs in this step with the timeout of the wait for the
\* peer's first fragment: the last attempt's 300 s ceiling in pseudo-stream
\* mode, the timeout of the header dequeue in real mode
PseudoFirstTimedOut(r) ==
  /\ Runnable(r, "pseudo_first")
  /\ req[r].got = Reject(CeilingText)
  /\ req[r].attempt = config.maxRetries
  /\ req'[r] # req[r]
RealHeaderTimedOut(r) ==
  /\ Runnable(r, "real_header")
  /\ req[r].got = Reject("Queue timeout")
  /\ req'[r] # req[r]

\* C34: in both response modes a timeout of the wait for the peer's first
\* fragment is handled as an upstream error with status 504: the failure is
\* recorded with that status, and in real mode, where nothing has been sent
\* yet, the response carries it.
FirstFragmentTimeout ==
  [][\A r \in Requests :
       /\ PseudoFirstTimedOut(r) =>
            /\ req'[r].lastMessage.status = TimeoutStatus
            /\ failureCount' = Recorded
       /\ RealHeaderTimedOut(r) =>
            /\ req'[r].res.status = TimeoutStatus
            /\ failureCount' = Recorded]_vars

\* C35: the queue of a pseudo-stream request lists no waiter other than the
\* dequeue the request is waiting in: after an attempt ended by the 300 s
\* ceiling no waiter of that attempt is left to take the retry's first fragment.
NoStaleWaiter ==
  \A r \in messageQueues :
    req[r].streaming_mode = "fake" /\ req[r].pc \in {"retry_delay", "pseudo_first"}
      => \A i \in 1..Len(queue[r].waitingResolvers) :
           queue[r].waitingResolvers[i] = req[r].tok

\* the callback of a grace timer runs in this step: every queue is closed and
\* connectionLost is emitted
TeardownNow ==
  \/ reconnectGraceTimer = "pending" /\ reconnectGraceTimer' = "fired"
  \/ lostTimers' < lostTimers

\* C36: the teardown of the grace period happens only when no peer is
\* registered at the moment its timer fires.
TeardownOnlyWithoutPeer == [][TeardownNow => connections = <<>>]_vars

\* request r passes admission in this step: processRequest creates its queue and
\* calls the response handler, which makes the first forward
PassesAdmission(r) == r \notin messageQueues /\ r \in messageQueues'

\* C37: every request that passes admission is dispatched while a peer is
\* registered: its first forward finds a connection and starts an operation on
\* the peer, also after a successful admission-time recovery.
AdmittedIsDispatched ==
  [][\A r \in Requests :
       PassesAdmission(r) => connections # <<>> /\ DispatchedNow(r)]_vars

\* an activation ends with success in this step and `index` is the index it was
\* called with: the target or the fallback of a switch, or the index the
\* admission-time recovery of a request read when it started
ActivationSucceeds(index) ==
  \/ /\ switchOp.phase # "none"
     /\ switchOp' = NoSwitch
     /\ index = IF switchOp.phase = "primary" THEN switchOp.target
                ELSE switchOp.previousAuthIndex
     /\ failureCount' = 0 /\ usageCount' = 0
  \/ \E r \in Requests :
       /\ req[r].pc = "recovering"
       /\ req'[r].pc = "admit"
       /\ index = req[r].authIndex

\* C38: after startup the current index is always one of the validated indices,
\* whatever switches, recoveries and failed activations happen; it changes only
\* in a step where an activation succeeds, and then to the index activated.
IdentityValidated ==
  /\ [](currentAuthIndex \in SeqToSet(availableIndices))
  /\ [][currentAuthIndex' # currentAuthIndex
          => ActivationSucceeds(currentAuthIndex')]_vars

\* the target of a switch failed and its fallback is being activated: the
\* current index is still the one the switch started from
FailedActivationKeepsIndex ==
  /\ switchOp.phase = "fallback"
  /\ currentAuthIndex = switchOp.previousAuthIndex
  /\ switchOp.target # currentAuthIndex
  /\ Len(availableIndices) > 1

\* the fragment that followed the headers of pseudo-stream request r was the end
\* of the stream: the upstream call succeeded with an empty body
EmptyBody(r) ==
  /\ req[r].streaming_mode = "fake"
  /\ req[r].dataMessage.type = "STREAM_END"

\* the response of r ends with `data: [DONE]`
EndsWithDone(r) ==
  /\ req[r].res.body # <<>>
  /\ req[r].res.body[Len(req[r].res.body)] = <<"done", 0>>

\* C39: a pseudo-stream request whose upstream call succeeded with an empty body
\* (headers, then the end of the stream, no chunk) does not wait for another
\* fragment, and its response ends with `data: [DONE]`.
EmptyBodyEndsWithDone ==
  \A r \in Requests :
    EmptyBody(r) =>
      /\ ~(req[r].pc = "pseudo_end" /\ req[r].got = NoVal)
      /\ req[r].pc = "done" /\ ~req[r].res.destroyed => EndsWithDone(r)

\* what operation op has transmitted so far
Fragments(op) == peer.transmitted[KeyOf(op)]

IsTerminal(m) == m.event_type \in {"stream_close", "error"}

\* C40: the fragments an operation of the peer has transmitted are all stamped
\* with its request id and are: response_headers first (absent only when the
\* one fragment is the error of a request that failed before a response
\* existed), then chunks, at most one of them in fake mode, then at most one
\* terminal fragment (stream_close or error) with nothing after it.
FragmentProtocol ==
  \A op \in peerOps :
    LET f == Fragments(op)
    IN /\ \A i \in 1..Len(f) :
            /\ f[i].request_id = op.id
            /\ f[i].event_type = "response_headers" => i = 1
            /\ f[i].event_type \in {"chunk", "stream_close"}
                 => i > 1 /\ f[1].event_type = "response_headers"
            /\ IsTerminal(f[i]) => i = Len(f)
       /\ op.mode = "fake"
            => Cardinality({ i \in 1..Len(f) : f[i].event_type = "chunk" }) <= 1

====
